---- MODULE Spec2Model ----
(***************************************************************************)
(* cpp-vcd-tracer: the trace session (vcd_tracer::top), its scope tree,    *)
(* the identifier generator and the traced values (vcd_tracer::value),     *)
(* modelled from src/src/vcd_tracer.hpp, vcd_tracer.ipp and vcd_tracer.cpp.*)
(*                                                                         *)
(* scope_fn::sequence_t is std::uint64_t and the time arguments are signed *)
(* 64 bit counts.  Both are modelled TimeBits wide: Modulus stands for     *)
(* 2^64 and Half for 2^63, and every conversion and every unsigned         *)
(* addition of the code is taken modulo Modulus.                           *)
(***************************************************************************)
EXTENDS Integers, Sequences, FiniteSets, TLC

\* ------------------------------------------------------------------------
\* Bounds of the model

\* Width, in bits, of the model's sequence_t and of the signed time counts.
TimeBits == 2
\* TRACE_DEPTH template argument of the buffered values.
TRACE_DEPTH == 2
\* Largest value the caller gives the shared sequence counter: one sample
\* more than a buffer holds can be recorded.
MaxSeq == TRACE_DEPTH
\* Number of time updates of the sessions Spec, SpecMix and SpecLife.
MaxUpdates == 1
\* Number of registrations a session of SpecLife makes in its elaboration.
MaxRegistrations == 3
\* Number of calls of next() on the identifier generator of SpecGen.
MaxCalls == 181
\* The microsecond of finalize_trace, as a count of the model's clock.
TerminalInterval == 1

Modulus == 2 ^ TimeBits
Half == 2 ^ (TimeBits - 1)

\* std::optional without a value.
None == -1
\* An object member that no constructor has initialised.
Indet == -2

\* ------------------------------------------------------------------------
\* Integer conversions

\* Conversion of a signed count to sequence_t (std::uint64_t).
ToUnsigned(x) == x % Modulus

\* static_cast<long int> of a sequence_t.
ToSigned(u) == IF u >= Half THEN u - Modulus ELSE u

\* The signed counts a caller can pass as a time.
TimeArgs == (0 - Half) .. (Half - 1)

\* ------------------------------------------------------------------------
\* The traced values of the model: one unbuffered value<bool> and two
\* buffered value<int, W, TRACE_DEPTH, &seq> that share the counter seq.

Sigs == {"flag", "ka", "ki"}

Depth(s) == IF s = "flag" THEN 1 ELSE TRACE_DEPTH

\* bit_size<T>::value / the BIT_SIZE template argument.
BitSize(s) == IF s = "flag" THEN 1 ELSE 9

\* The template argument T of each value.
TypeOf(s) == IF s = "flag" THEN "bool" ELSE "int"

\* The storage types of the model, of the types value_base::dump is
\* instantiated for.
Types == {"bool", "char", "unsigned char", "int"}

\* The floating point types value_base::dump is instantiated for.
RealTypes == {"float", "double"}

\* std::is_floating_point_v<T>
is_floating_point(T) == T \in RealTypes

\* sizeof(T)
SizeOf(T) == IF T = "int" THEN 4 ELSE 1

\* bit_size<T>::value: the default of BIT_SIZE.
bit_size(T) == IF T = "bool" THEN 1 ELSE SizeOf(T) * 8

\* std::is_signed_v<T>; char is signed where the library is built.
is_signed(T) == T \in {"char", "int"}

\* The values of a T.
ValuesOf(T) ==
    IF T = "bool" THEN {0, 1}
    ELSE IF is_floating_point(T) THEN {0 - 3, 0, 1, 7, 25}
    ELSE IF T = "unsigned char" THEN 0 .. 255
    ELSE IF T = "char" THEN (0 - 128) .. 127
    ELSE {(0 - 2 ^ 30) * 2, 0 - 2, 0 - 1, 0, 1, 5, 170, 341, 122541,
          2 ^ 30 + (2 ^ 30 - 1)}

\* The values a caller passes to set().
Values == {0, 1}

\* The module instances a design hierarchy can hold, by instance name:
\* top::root and the modules declared below it.
Nodes == {"root", "mod1", "mod2", "mod3"}

\* The module instance each value of a session is declared in.
NodeOf(s) == IF s = "flag" THEN "root" ELSE "mod1"

\* The module instance whose children hold n.
ParentOf(tree, n) == CHOOSE p \in Nodes : \E i \in DOMAIN tree[p] : tree[p][i] = n

register_path_flat(tree, n, child_path) == <<n>> \o child_path

RECURSIVE register_path(_, _, _)
\* module::add_var and module::register_var: the module instance n puts its
\* instance_name and a `.` before the path and hands it to its
\* _register_fn, which is register_var of its parent, or the closure of
\* top::top for the root.
register_path(tree, n, child_path) ==
    IF n = "root" THEN <<n>> \o child_path
    ELSE register_path(tree, ParentOf(tree, n), <<n>> \o child_path)

\* ------------------------------------------------------------------------
\* Identifier generator

VCD_NAME_START == 33
VCD_NAME_END == 122
\* std::array<char, 16> _identifier
IDENTIFIER_CAPACITY == 16

\* The loop of identifier_generator::next as it would be without the
\* column it appends when every character has wrapped
identifier_increment_stuck(ident, i) ==
    IF ident[i] = VCD_NAME_END
    THEN [ident EXCEPT ![i] = VCD_NAME_START]
    ELSE [ident EXCEPT ![i] = @ + 1]

RECURSIVE identifier_increment(_, _)
\* The do/while loop of identifier_generator::next: increment the characters
\* from position i leftwards, appending a column when all of them wrapped.
identifier_increment(ident, i) ==
    IF ident[i] = VCD_NAME_END
    THEN LET wrapped == [ident EXCEPT ![i] = VCD_NAME_START]
         IN  IF i = 1
             THEN Append(wrapped, VCD_NAME_START)
             ELSE identifier_increment(wrapped, i - 1)
    ELSE [ident EXCEPT ![i] = @ + 1]

\* identifier_generator::next: the generator's new _identifier (its length
\* is _size), which is also the string returned.
identifier_next(ident) ==
    IF Len(ident) = IDENTIFIER_CAPACITY THEN ident
    ELSE IF Len(ident) = 0 THEN <<VCD_NAME_START>>
    ELSE identifier_increment(ident, Len(ident))

\* A call of identifier_generator::next: the generator it leaves and the
\* string it returns.  The call that appends the last column of the array
\* writes the terminator to _identifier[16], outside the array: what it
\* hits is not defined.  It leaves _size alone, or it clears the low byte
\* of _size, the member that follows the array.
next_outcomes(ident) ==
    IF Len(ident) < IDENTIFIER_CAPACITY
       /\ Len(identifier_next(ident)) = IDENTIFIER_CAPACITY
    THEN {[generator |-> identifier_next(ident), returned |-> identifier_next(ident)],
          [generator |-> <<>>, returned |-> identifier_next(ident)]}
    ELSE {[generator |-> identifier_next(ident), returned |-> identifier_next(ident)]}

RECURSIVE StringLess(_, _)
\* std::less<std::string>, the key order of the std::map containers.
StringLess(a, b) ==
    IF b = <<>> THEN FALSE
    ELSE IF a = <<>> THEN TRUE
    ELSE IF Head(a) # Head(b) THEN Head(a) < Head(b)
    ELSE StringLess(Tail(a), Tail(b))

RECURSIVE MapKeys(_)
\* The keys of a std::map<std::string, ...> in iteration order.
MapKeys(keys) ==
    IF keys = {} THEN <<>>
    ELSE LET first == CHOOSE k \in keys : \A j \in keys \ {k} : StringLess(k, j)
         IN  <<first>> \o MapKeys(keys \ {first})

\* ------------------------------------------------------------------------
\* State

VARIABLES
    seq,            \* the caller's sequence counter (*CUR_SEQ)
    _idx,           \* value::_idx of every value
    _samples,       \* value::_samples of every value
    _scope,         \* value_base::_scope of every value
    _identifier,    \* identifier_generator::_identifier (length = _size)
    dumper_map,     \* top::map_data::dumper_map
    identifier_map, \* top::map_data::identifier_map
    vcd_scope,      \* module_instance::vcd_scope of every node
    children,       \* module_instance::children of every node
    header_done,    \* root._context has been reset by finalize_header
    _timestamp,     \* top::_timestamp
    _tracepoint,    \* top::_tracepoint
    out,            \* the lines the most recent call wrote to the stream
    call,           \* the most recent call on the session, "value" after a
                    \* step of the caller on a value or on the counter
    last_time,      \* time of the last `#` line of the whole output
    header_clean,   \* no buffered sample was pending when the header was written
    updates,        \* number of time updates counted against MaxUpdates
    alive,          \* the process has not been ended by a memory fault
    destroyed,      \* the values whose destructor has run
    declared,       \* the identifiers of the `$var` lines of the header written
    issued,         \* the identifiers identifier_generator::next has returned
    probe,          \* a value built on an add function of the caller's own
    returned        \* what the dumper the caller called last has returned

vars == <<seq, _idx, _samples, _scope, _identifier, dumper_map, identifier_map,
          vcd_scope, children, header_done, _timestamp, _tracepoint, out, call,
          last_time, header_clean, updates, alive, destroyed, declared,
          issued, probe, returned>>

\* The module instances in context->children, in creation order.
Children(n) == children[n]

\* The instance names from the root down to a node.
NodePath(n) == register_path(children, n, <<>>)

\* What only construction, destruction and the header change.
lifetime == <<alive, destroyed, declared, issued, probe, returned>>

\* ------------------------------------------------------------------------
\* Output lines

DateLine == [k |-> "date"]
TimescaleLine == [k |-> "timescale", unit |-> "1ns"]
VersionLine == [k |-> "version"]
EndDefinitionsLine == [k |-> "enddefinitions"]
ScopeLine(name) == [k |-> "scope", name |-> name]
UpscopeLine == [k |-> "upscope"]
VarLine(type, bits, id, name) ==
    [k |-> "var", type |-> type, bits |-> bits, id |-> id, name |-> name]

\* `#<time>`
TimeLine(t) == [k |-> "time", t |-> t]

\* `static_cast<T>(1) << (bit_size - 1)`: the sign bit of a signed T when
\* bit_size is the whole width of T.
first_mask(T, width) ==
    IF is_signed(T) /\ width = SizeOf(T) * 8
    THEN (0 - 2 ^ (width - 2)) * 2
    ELSE 2 ^ (width - 1)

\* `(value & mask) != 0` for a mask that is one bit, or, negative, the sign
\* bit and the bits `mask >> 1` has copied below it.
bit_test(value, mask) ==
    IF mask > 0 THEN (value \div mask) % 2 = 1
    ELSE IF mask < 0 THEN value < 0 \/ (0 - value) <= mask
    ELSE FALSE

RECURSIVE compact_bits(_, _, _, _, _)
\* The for loop of value_base::dump<T> for an integer type: the characters
\* written for the bits below mask, prev_bit being the bit at mask.
compact_bits(value, mask, i, prev_bit, compress) ==
    IF i < 0 THEN <<IF prev_bit THEN "1" ELSE "0">>
    ELSE LET next_mask == mask \div 2
             this_bit == bit_test(value, next_mask)
         IN  IF compress /\ (this_bit = prev_bit)
             THEN compact_bits(value, next_mask, i - 1, this_bit, TRUE)
             ELSE <<IF prev_bit THEN "1" ELSE "0">>
                  \o compact_bits(value, next_mask, i - 1, this_bit, FALSE)

\* value_base::dump<T> as it would be with the integer branch alone
value_text_vector(T, width, state, value) ==
    <<"b">>
    \o (IF state = "unknown_x" THEN <<"x">>
        ELSE IF state = "undriven_z" THEN <<"z">>
        ELSE compact_bits(value, first_mask(T, width), width - 2,
                          bit_test(value, first_mask(T, width)), TRUE))
    \o <<" ">>

\* value_base::dump<T> as it would be with the branch of bool alone
value_text_scalar(T, width, state, value) ==
    IF state = "unknown_x" THEN <<"x">>
    ELSE IF state = "undriven_z" THEN <<"z">>
    ELSE <<IF value # 0 THEN "1" ELSE "0">>

\* The decimal digits of a natural number.
Decimal(n) ==
    LET digit(d) == <<"0", "1", "2", "3", "4", "5", "6", "7", "8", "9">>[d + 1]
    IN  IF n < 10 THEN <<digit(n)>> ELSE <<digit(n \div 10), digit(n % 10)>>

\* snprintf "%-.16g" of a double that holds a whole number of one or two
\* digits: the digits, after `-` for a negative number.
format_g(value) ==
    IF value < 0 THEN <<"-">> \o Decimal(0 - value) ELSE Decimal(value)

\* value_base::dump<T>: the characters written before the identifier, for
\* the floating point types, for bool and for the integer types.
value_text(T, width, state, value) ==
    IF is_floating_point(T)
    THEN <<"r">> \o format_g(value) \o <<" ">>
    ELSE IF T = "bool"
    THEN IF state = "unknown_x" THEN <<"x">>
         ELSE IF state = "undriven_z" THEN <<"z">>
         ELSE <<IF value # 0 THEN "1" ELSE "0">>
    ELSE <<"b">>
         \o (IF state = "unknown_x" THEN <<"x">>
             ELSE IF state = "undriven_z" THEN <<"z">>
             ELSE compact_bits(value, first_mask(T, width), width - 2,
                               bit_test(value, first_mask(T, width)), TRUE))
         \o <<" ">>

\* A value change line: the text value_base::dump writes, followed by the
\* identifier.  sequence is the sequence of the sample slot that was dumped
\* (None for a value without sequencing); it is not part of the text.
ValueLine(id, T, width, smp) ==
    [k |-> "value", text |-> value_text(T, width, smp.state, smp.value),
     id |-> id, sequence |-> smp.sequence]

\* ------------------------------------------------------------------------
\* struct sample

\* A slot as the member initialisers of struct sample leave it.
FreshSample(s) ==
    [sequence |-> IF Depth(s) = 1 THEN None ELSE Modulus - 1,
     state |-> "unknown_x", value |-> Indet]

\* sample::set
sample_set(smp, v, cur) ==
    [sequence |-> IF smp.sequence = None THEN None ELSE cur,
     state |-> "known", value |-> v]

\* sample::set_state
sample_set_state(smp, S, cur) ==
    [smp EXCEPT !.sequence = IF smp.sequence = None THEN None ELSE cur,
                !.state = S]

\* value::sample_changed as it would be were every sample a change
sample_changed_always(new_sample, prev_sample) == {TRUE}

\* value::sample_changed.  Comparing with a value no constructor has set
\* reads an indeterminate object: either answer is possible.
sample_changed(new_sample, prev_sample) ==
    IF prev_sample = Indet THEN BOOLEAN ELSE {new_sample # prev_sample}

\* Slot i (0-based, as in the code) of a sample array.
Slot(smps, i) == smps[i + 1]

\* ------------------------------------------------------------------------
\* value::set and value::set_state, as functions of the value's members

\* The value set() would compare the new one with if it looked at the
\* oldest slot instead of the newest.
PrevValueOldest(s) == Slot(_samples[s], 0).value

\* The stored value set() compares the new one with.
PrevValue(s) ==
    IF Depth(s) = 1 THEN Slot(_samples[s], 0).value
    ELSE IF _idx[s].write >= 0 /\ _idx[s].write < Depth(s)
         THEN Slot(_samples[s], _idx[s].write % Depth(s)).value
         ELSE 0

\* value::set(v); changed is the result of sample_changed.
value_set(s, v, changed) ==
    LET D == Depth(s)
        ix == _idx[s]
        smps == _samples[s]
    IN  IF D = 1
        THEN IF changed \/ Slot(smps, 0).state # "known"
             THEN [idx |-> [ix EXCEPT !.write = 1],
                   samples |-> [smps EXCEPT ![1] = sample_set(@, v, seq)]]
             ELSE [idx |-> ix, samples |-> smps]
        ELSE IF (ix.write = -1)
                \/ ((ix.write < D)
                    /\ (changed \/ Slot(smps, ix.write % D).state # "known"))
             THEN LET w == IF (ix.write = -1)
                              \/ (Slot(smps, ix.write % D).sequence # seq)
                           THEN ix.write + 1 ELSE ix.write
                  IN  [idx |-> [ix EXCEPT !.write = w],
                       samples |-> IF w < D
                                   THEN [smps EXCEPT ![(w % D) + 1] = sample_set(@, v, seq)]
                                   ELSE smps]
             ELSE [idx |-> ix, samples |-> smps]

\* value::set_state<S>()
value_set_state(s, S) ==
    LET D == Depth(s)
        ix == _idx[s]
        smps == _samples[s]
    IN  IF D = 1
        THEN IF Slot(smps, 0).state # S
             THEN [idx |-> [ix EXCEPT !.write = 1],
                   samples |-> [smps EXCEPT ![1] = sample_set_state(@, S, seq)]]
             ELSE [idx |-> ix, samples |-> smps]
        ELSE IF (ix.write = -1)
                \/ ((ix.write < D) /\ (Slot(smps, ix.write % D).state # S))
             THEN LET w == IF (ix.write = -1)
                              \/ (Slot(smps, ix.write % D).sequence # seq)
                           THEN ix.write + 1 ELSE ix.write
                  IN  [idx |-> [ix EXCEPT !.write = w],
                       samples |-> IF w < D
                                   THEN [smps EXCEPT ![(w % D) + 1] = sample_set_state(@, S, seq)]
                                   ELSE smps]
             ELSE [idx |-> ix, samples |-> smps]

\* ------------------------------------------------------------------------
\* value::dump

\* value::dump as it would be were the read index left where it is
read_start_kept(ix, start) == ix.read

\* `if (start) { _idx.read = 0; }`: the read index a dump goes on with.
read_start(ix, start) == IF start THEN 0 ELSE ix.read

\* The unbuffered case of value::dump as it would be if a change were filed
\* under the current sequence at the peek and written when its turn comes.
dump_unbuffered_filed(s, ix, start) ==
    IF ix.write = 0
    THEN [idx |-> ix, lines |-> <<>>, dumped |-> None, next |-> None]
    ELSE IF start
    THEN [idx |-> ix, lines |-> <<>>, dumped |-> None, next |-> seq]
    ELSE [idx |-> [ix EXCEPT !.write = 0],
          lines |-> <<ValueLine(_scope[s].identifier, TypeOf(s), BitSize(s),
                                Slot(_samples[s], 0))>>,
          dumped |-> seq, next |-> None]

\* The unbuffered case of value::dump (TRACE_DEPTH == 1): start is not
\* looked at.
dump_unbuffered(s, ix, start) ==
    IF ix.write # 0
    THEN [idx |-> [ix EXCEPT !.write = 0],
          lines |-> <<ValueLine(_scope[s].identifier, TypeOf(s), BitSize(s),
                                Slot(_samples[s], 0))>>,
          dumped |-> None, next |-> None]
    ELSE [idx |-> ix, lines |-> <<>>, dumped |-> None, next |-> None]

\* value::dump(out, start) of value s whose index is ix: the new index, the
\* lines written and the dump_sequence_t returned.
dump(s, ix, start) ==
    LET D == Depth(s)
        smps == _samples[s]
        id == _scope[s].identifier
    IN  IF D = 1
        THEN dump_unbuffered(s, ix, start)
        ELSE LET rd == read_start(ix, start)
             IN  IF rd > ix.write
                 THEN [idx |-> [write |-> -1, read |-> rd],
                       lines |-> <<>>, dumped |-> None, next |-> None]
                 ELSE LET read_index == rd % D
                      IN  IF start
                          THEN [idx |-> [ix EXCEPT !.read = rd],
                                lines |-> <<>>, dumped |-> None,
                                next |-> Slot(smps, read_index).sequence]
                          ELSE IF rd + 1 > ix.write
                               THEN [idx |-> [write |-> -1, read |-> rd + 1],
                                     lines |-> <<ValueLine(id, TypeOf(s), BitSize(s), Slot(smps, read_index))>>,
                                     dumped |-> Slot(smps, read_index).sequence,
                                     next |-> None]
                               ELSE [idx |-> [ix EXCEPT !.read = rd + 1],
                                     lines |-> <<ValueLine(id, TypeOf(s), BitSize(s), Slot(smps, read_index))>>,
                                     dumped |-> Slot(smps, read_index).sequence,
                                     next |-> Slot(smps, (rd + 1) % D).sequence]

\* scope_fn::nop_dump
nop_dump == [lines |-> <<>>, dumped |-> None, next |-> None]

\* A call of a dumper_fn of the registry: nop_dump, or the dump of the value
\* the closure was made for.  io holds the stream, the tracepoint and the
\* indices of all values.
call_dumper(fn, io, start) ==
    IF fn = "nop_dump"
    THEN [io |-> io, dumped |-> None, next |-> None]
    ELSE LET r == dump(fn, io.idx[fn], start)
         IN  [io |-> [io EXCEPT !.idx[fn] = r.idx, !.out = @ \o r.lines],
              dumped |-> r.dumped, next |-> r.next]

\* ------------------------------------------------------------------------
\* top::log_time as it would be if every call were forced.
log_time_always(io, new_time, force) ==
    [io EXCEPT !.out = Append(@, TimeLine(new_time)), !.tp = new_time]

\* top::log_time
log_time(io, new_time, force) ==
    IF force \/ (new_time # io.tp)
    THEN [io EXCEPT !.out = Append(@, TimeLine(new_time)), !.tp = new_time]
    ELSE io

\* ------------------------------------------------------------------------
\* top::time_update_core

\* status[sequence].push_back(identifier)
status_push(status, sequence, identifier) ==
    IF sequence \in DOMAIN status
    THEN [status EXCEPT ![sequence] = Append(@, identifier)]
    ELSE [k \in DOMAIN status \cup {sequence} |->
            IF k = sequence THEN <<identifier>> ELSE status[k]]

\* status.begin() as it would be were the map ordered by std::greater
status_begin_last(status) ==
    CHOOSE k \in DOMAIN status : \A j \in DOMAIN status : k >= j

\* The key of status.begin()
status_begin(status) ==
    CHOOSE k \in DOMAIN status : \A j \in DOMAIN status : k <= j

\* status.erase(status.begin())
status_erase_begin(status) ==
    [k \in DOMAIN status \ {status_begin(status)} |-> status[k]]

\* The first loop as it would be if it called no dumper.
first_pass_idle(ids, st) == st

RECURSIVE first_pass(_, _)
\* The first loop: every dumper of the registry is called with start = true.
\* st.calls counts the calls of dumpers.
first_pass(ids, st) ==
    IF ids = <<>> THEN st
    ELSE LET identifier == Head(ids)
             r == call_dumper(dumper_map[identifier], st.io, TRUE)
             found == r.dumped # None
                      /\ (st.first_unset \/ st.first_sequence > r.dumped)
         IN  first_pass(Tail(ids),
                 [io |-> r.io,
                  status |-> IF r.next # None
                             THEN status_push(st.status, r.next, identifier)
                             ELSE st.status,
                  first_unset |-> IF found THEN FALSE ELSE st.first_unset,
                  first_sequence |-> IF found THEN r.dumped ELSE st.first_sequence,
                  calls |-> st.calls + 1])

RECURSIVE dump_bucket(_, _)
\* The inner loop of the second pass over the identifiers of one bucket.
dump_bucket(identifiers, st) ==
    IF identifiers = <<>> THEN st
    ELSE LET identifier == Head(identifiers)
             r == call_dumper(dumper_map[identifier], st.io, FALSE)
         IN  dump_bucket(Tail(identifiers),
                 [st EXCEPT !.io = r.io,
                            !.calls = @ + 1,
                            !.status = IF r.next # None
                                       THEN status_push(@, r.next, identifier)
                                       ELSE @])

RECURSIVE second_pass(_, _)
\* The while loop: the buckets of status in ascending sequence order.
second_pass(timestamp, st) ==
    IF DOMAIN st.status = {} THEN st
    ELSE LET sequence == status_begin(st.status)
             identifiers == st.status[sequence]
             first_sequence == IF st.first_unset THEN sequence ELSE st.first_sequence
             delta == (sequence - first_sequence) % Modulus
             logged == log_time(st.io, (timestamp + delta) % Modulus, FALSE)
             dumped == dump_bucket(identifiers,
                           [st EXCEPT !.io = logged,
                                      !.first_unset = FALSE,
                                      !.first_sequence = first_sequence])
         IN  second_pass(timestamp,
                 [dumped EXCEPT !.status = status_erase_begin(@)])

\* The two loops of top::time_update_core with _timestamp = timestamp: what
\* they leave when the while loop has ended.
drain_pass(timestamp, io) ==
    second_pass(timestamp,
        first_pass(MapKeys(DOMAIN dumper_map),
            [io |-> io, status |-> <<>>, first_unset |-> TRUE,
             first_sequence |-> Indet, calls |-> 0]))

\* top::time_update_core with _timestamp = timestamp: the stream, the
\* tracepoint and the indices after the call.
time_update_core(timestamp, io) == drain_pass(timestamp, io).io

\* ------------------------------------------------------------------------
\* The time update functions of top, as functions of the session's clock
\* (ts = _timestamp, io.tp = _tracepoint) and of the values' indices

\* The end of both time updates: _timestamp = new_timestamp and log_time.
clock_moved(new_timestamp, flushed) ==
    [ts |-> new_timestamp, io |-> log_time(flushed, new_timestamp, FALSE)]

\* top::time_update_delta after its call of time_update_core, which left
\* the stream, tracepoint and indices flushed.
delta_after_flush(ts, flushed, delta) ==
    clock_moved(IF (ts + ToUnsigned(delta)) % Modulus <= flushed.tp
                THEN flushed.tp
                ELSE (ts + ToUnsigned(delta)) % Modulus, flushed)

\* The flush of a time update made after the clock has moved.
delta_before_flush(ts, moved) ==
    [ts |-> moved.ts, io |-> time_update_core(ts, moved.io)]

\* top::time_update_delta as it would be with log_time ahead of the flush
time_update_delta_early(ts, io, delta) ==
    delta_before_flush(ts, clock_moved(IF (ts + ToUnsigned(delta)) % Modulus <= io.tp
                                       THEN io.tp
                                       ELSE (ts + ToUnsigned(delta)) % Modulus, io))

\* top::time_update_delta
time_update_delta(ts, io, delta) ==
    delta_after_flush(ts, time_update_core(ts, io), delta)

\* top::time_update_abs as it would be if time_update_core left _timestamp
\* at the last time it has written.
abs_after_flush_moved(ts, flushed, new_timestamp) ==
    IF ToUnsigned(new_timestamp) >= flushed.tp
    THEN clock_moved(ToUnsigned(new_timestamp), flushed)
    ELSE [ts |-> flushed.tp, io |-> flushed]

\* top::time_update_abs after its call of time_update_core.
abs_after_flush(ts, flushed, new_timestamp) ==
    IF ToUnsigned(new_timestamp) >= ts
    THEN clock_moved(ToUnsigned(IF new_timestamp <= ToSigned(flushed.tp)
                                THEN ToSigned(flushed.tp)
                                ELSE new_timestamp), flushed)
    ELSE [ts |-> ts, io |-> flushed]

\* top::time_update_abs
time_update_abs(ts, io, new_timestamp) ==
    abs_after_flush(ts, time_update_core(ts, io), new_timestamp)

\* ------------------------------------------------------------------------
\* top::finalize_trace

\* The second call of finalize_trace: time_update_delta(out, 1us) on what
\* the first call has left.
trailing_update(flushed) ==
    time_update_delta(flushed.ts, flushed.io, TerminalInterval)

\* top::finalize_trace: time_update_delta(out, 1ns) and then
\* time_update_delta(out, 1us).
finalize_trace_idle(ts, io) == [ts |-> ts, io |-> io]

finalize_trace(ts, io) == trailing_update(time_update_delta(ts, io, 1))

\* ------------------------------------------------------------------------
\* module::finalize_header

RECURSIVE scope_text(_)
RECURSIVE children_text(_)
\* module::finalize_header as it would be without `$upscope $end`.
scope_text_unclosed(n) == vcd_scope[n] \o children_text(Children(n))

\* module::finalize_header as it would be if the `$var` lines of a node
\* were written after the text of its children.
scope_text_children_first(n) ==
    <<Head(vcd_scope[n])>> \o children_text(Children(n))
                          \o Tail(vcd_scope[n]) \o <<UpscopeLine>>

\* module::finalize_header(out, context): the node's own text, the text of
\* its children in creation order, and `$upscope $end`.
scope_text(n) ==
    vcd_scope[n] \o children_text(Children(n)) \o <<UpscopeLine>>

\* The loop over context->children.
children_text(nodes) ==
    IF nodes = <<>> THEN <<>>
    ELSE scope_text(Head(nodes)) \o children_text(Tail(nodes))

\* top::finalize_header as it would be without its call of log_time
finalize_header_untimed(io) ==
    LET header == [io EXCEPT !.out = @ \o <<DateLine, TimescaleLine, VersionLine>>
                                       \o scope_text("root")
                                       \o <<EndDefinitionsLine>>]
    IN  time_update_core(0, [header EXCEPT !.tp = 0])

\* top::finalize_header: the stream, the tracepoint and the indices after
\* the call; _timestamp is 0 after it.
finalize_header(io) ==
    LET header == [io EXCEPT !.out = @ \o <<DateLine, TimescaleLine, VersionLine>>
                                       \o scope_text("root")
                                       \o <<EndDefinitionsLine>>]
    IN  time_update_core(0, log_time(header, 0, TRUE))

\* The identifiers of the `$var` lines of lines.
VarIdentifiers(lines) ==
    {lines[i].id : i \in {j \in 1 .. Len(lines) : lines[j].k = "var"}}

\* ------------------------------------------------------------------------
\* History of the output

RECURSIVE LastTimeOf(_, _)
\* The time of the last `#` line of lines, or prev when there is none.
LastTimeOf(lines, prev) ==
    IF lines = <<>> THEN prev
    ELSE IF lines[Len(lines)].k = "time" THEN lines[Len(lines)].t
    ELSE LastTimeOf(SubSeq(lines, 1, Len(lines) - 1), prev)

\* The stream, tracepoint and indices a call starts with.
CallIO == [out |-> <<>>, tp |-> _tracepoint, idx |-> _idx]

\* ------------------------------------------------------------------------
\* Construction and registration

\* module::add_var of the module instance n for the value s: the path goes
\* up through module::register_var to the closure top::top gives its root
\* module, which takes the next identifier and files the path and the
\* dumper under it; add_var writes the `$var` line of n with the identifier
\* that comes back and hands identifier and updater on to the value.
\* reg = [identifier, dumper_map, identifier_map, vcd_scope, children,
\* scope, issued].
add_var(reg, n, s) ==
    LET identifier == identifier_next(reg.identifier)
    IN  [identifier |-> identifier,
         identifier_map |-> [k \in DOMAIN reg.identifier_map \cup {identifier} |->
                               IF k = identifier
                               THEN register_path(reg.children, n, <<s>>)
                               ELSE reg.identifier_map[k]],
         dumper_map |-> [k \in DOMAIN reg.dumper_map \cup {identifier} |->
                           IF k = identifier THEN s ELSE reg.dumper_map[k]],
         vcd_scope |-> [reg.vcd_scope EXCEPT ![n] =
                           Append(@, VarLine("wire", BitSize(s), identifier, s))],
         children |-> reg.children,
         scope |-> [reg.scope EXCEPT ![s] = [identifier |-> identifier,
                                             updater |-> identifier]],
         issued |-> Append(reg.issued, identifier)]

\* The state of the session after value s has registered from the module
\* instance it is declared in.
register_var(reg, s) == add_var(reg, NodeOf(s), s)

RECURSIVE construct_values(_, _)
\* The declarations value<...> v(module.get_add_fn(), name [, default]) of
\* the values of decls, in that order.
construct_values(reg, decls) ==
    IF decls = <<>> THEN reg
    ELSE construct_values(register_var(reg, Head(decls)), Tail(decls))

\* top dumper("root"); module mod1(dumper.root, "mod1"): nothing registered.
NewSession ==
    [identifier |-> <<>>, identifier_map |-> <<>>, dumper_map |-> <<>>,
     vcd_scope |-> [n \in Nodes |->
                      IF n \in {"root", "mod1"} THEN <<ScopeLine(n)>> ELSE <<>>],
     children |-> [n \in Nodes |-> IF n = "root" THEN <<"mod1">> ELSE <<>>],
     scope |-> [s \in Sigs |-> [identifier |-> <<>>, updater |-> "nop_update"]],
     issued |-> <<>>]

\* value::_samples after the constructor: value(add_fn, var_name) leaves the
\* slots as struct sample initialises them, value(add_fn, var_name,
\* default_value) sets slot 0.
ConstructedSamples(s, default) ==
    [i \in 1 .. Depth(s) |->
        IF i = 1 /\ default # Indet
        THEN sample_set(FreshSample(s), default, 0)
        ELSE FreshSample(s)]

\* The session after the values of decls are constructed in it; defaults
\* are the constructor arguments to choose from (Indet: none).
InitSession(session, decls, defaults) ==
    /\ seq = 0
    /\ _idx = [s \in Sigs |-> [write |-> -1, read |-> 0]]
    /\ \E default \in defaults :
         _samples = [s \in Sigs |-> ConstructedSamples(s, default[s])]
    /\ LET reg == construct_values(session, decls)
       IN  /\ _scope = reg.scope
           /\ _identifier = reg.identifier
           /\ dumper_map = reg.dumper_map
           /\ identifier_map = reg.identifier_map
           /\ vcd_scope = reg.vcd_scope
           /\ children = reg.children
           /\ issued = reg.issued
    /\ alive = TRUE
    /\ destroyed = {}
    /\ declared = {}
    /\ header_done = FALSE
    /\ _timestamp = Indet
    /\ _tracepoint = Indet
    /\ out = <<>>
    /\ call = "value"
    /\ last_time = None
    /\ header_clean = TRUE
    /\ updates = 0

\* The caller has called no dumper.
NotCalled == [value |-> "none", dumped |-> None, next |-> None]

\* No value is built outside the session.
NoProbe == [type |-> "none"]

\* The state after the values of decls are constructed in session.
InitFrom(session, decls, defaults) ==
    /\ InitSession(session, decls, defaults)
    /\ probe = NoProbe
    /\ returned = NotCalled

\* The state after the session and the values of decls are constructed.
InitWith(decls, defaults) == InitFrom(NewSession, decls, defaults)

\* ------------------------------------------------------------------------
\* Actions

\* value::set(v) on a value that is traced
Set(s, v) ==
    /\ _scope[s].identifier # <<>>
    /\ \E changed \in sample_changed(v, PrevValue(s)) :
         LET r == value_set(s, v, changed)
         IN  /\ _idx' = [_idx EXCEPT ![s] = r.idx]
             /\ _samples' = [_samples EXCEPT ![s] = r.samples]
    /\ out' = <<>>
    /\ call' = "value"
    /\ UNCHANGED <<seq, _scope, _identifier, dumper_map, identifier_map,
                   vcd_scope, children, header_done, _timestamp, _tracepoint, last_time,
                   header_clean>>
    /\ UNCHANGED lifetime

\* value::unknown() and value::undriven() on a value that is traced
SetState(s, S) ==
    /\ _scope[s].identifier # <<>>
    /\ LET r == value_set_state(s, S)
       IN  /\ _idx' = [_idx EXCEPT ![s] = r.idx]
           /\ _samples' = [_samples EXCEPT ![s] = r.samples]
    /\ out' = <<>>
    /\ call' = "value"
    /\ UNCHANGED <<seq, _scope, _identifier, dumper_map, identifier_map,
                   vcd_scope, children, header_done, _timestamp, _tracepoint, last_time,
                   header_clean>>
    /\ UNCHANGED lifetime

\* The caller advances the shared sequence counter (seq++).
SeqAdvance ==
    /\ seq < MaxSeq
    /\ seq' = seq + 1
    /\ out' = <<>>
    /\ call' = "value"
    /\ UNCHANGED <<_idx, _samples, _scope, _identifier, dumper_map,
                   identifier_map, vcd_scope, children, header_done, _timestamp,
                   _tracepoint, last_time, header_clean>>
    /\ UNCHANGED lifetime

\* top::finalize_header, called once
FinalizeHeader ==
    /\ ~header_done
    /\ LET io == finalize_header(CallIO)
       IN  /\ _timestamp' = 0
           /\ _tracepoint' = io.tp
           /\ _idx' = io.idx
           /\ out' = io.out
           /\ last_time' = LastTimeOf(io.out, last_time)
    /\ header_done' = TRUE
    /\ header_clean' = \A s \in Sigs : Depth(s) > 1 => _idx[s].write = -1
    /\ declared' = VarIdentifiers(scope_text("root"))
    /\ call' = "finalize_header"
    /\ UNCHANGED <<seq, _samples, _scope, _identifier, dumper_map,
                   identifier_map, vcd_scope, children, alive, destroyed, issued,
                   probe, returned>>

\* top::time_update_delta(out, delta), in the tracing phase
TimeUpdateDelta(delta) ==
    /\ header_done
    /\ LET r == time_update_delta(_timestamp, CallIO, delta)
       IN  /\ _timestamp' = r.ts
           /\ _tracepoint' = r.io.tp
           /\ _idx' = r.io.idx
           /\ out' = r.io.out
           /\ last_time' = LastTimeOf(r.io.out, last_time)
    /\ call' = "time_update_delta"
    /\ UNCHANGED <<seq, _samples, _scope, _identifier, dumper_map,
                   identifier_map, vcd_scope, children, header_done, header_clean>>
    /\ UNCHANGED lifetime

\* top::time_update_abs(out, timestamp), in the tracing phase
TimeUpdateAbs(t) ==
    /\ header_done
    /\ LET r == time_update_abs(_timestamp, CallIO, t)
       IN  /\ _timestamp' = r.ts
           /\ _tracepoint' = r.io.tp
           /\ _idx' = r.io.idx
           /\ out' = r.io.out
           /\ last_time' = LastTimeOf(r.io.out, last_time)
    /\ call' = "time_update_abs"
    /\ UNCHANGED <<seq, _samples, _scope, _identifier, dumper_map,
                   identifier_map, vcd_scope, children, header_done, header_clean>>
    /\ UNCHANGED lifetime

\* top::finalize_trace(out), in the tracing phase
FinalizeTrace ==
    /\ header_done
    /\ LET r == finalize_trace(_timestamp, CallIO)
       IN  /\ _timestamp' = r.ts
           /\ _tracepoint' = r.io.tp
           /\ _idx' = r.io.idx
           /\ out' = r.io.out
           /\ last_time' = LastTimeOf(r.io.out, last_time)
    /\ call' = "finalize_trace"
    /\ UNCHANGED <<seq, _samples, _scope, _identifier, dumper_map,
                   identifier_map, vcd_scope, children, header_done, header_clean>>
    /\ UNCHANGED lifetime

\* The session as a registration finds it.
Registry ==
    [identifier |-> _identifier, identifier_map |-> identifier_map,
     dumper_map |-> dumper_map, vcd_scope |-> vcd_scope,
     children |-> children, scope |-> _scope, issued |-> issued]

\* The session and the value are left as the registration reg leaves them.
Registered(reg) ==
    /\ _identifier' = reg.identifier
    /\ identifier_map' = reg.identifier_map
    /\ dumper_map' = reg.dumper_map
    /\ vcd_scope' = reg.vcd_scope
    /\ children' = reg.children
    /\ _scope' = reg.scope
    /\ issued' = reg.issued

\* module::elaborate(var, var_name) / value::elaborate in the elaboration
\* phase: elaborate_base registers the value, once more if it is registered
\* already, and replaces _scope.identifier and _scope.updater.
Elaborate(s) ==
    /\ ~header_done
    /\ s \notin destroyed
    /\ Registered(register_var(Registry, s))
    /\ out' = <<>>
    /\ call' = "value"
    /\ UNCHANGED <<seq, _idx, _samples, header_done, _timestamp, _tracepoint,
                   last_time, header_clean, alive, destroyed, declared,
                   probe, returned>>

\* value_base::~value_base: _scope.updater(scope_fn::nop_dump) replaces the
\* dumper registered under the identifier the updater was made for.
Destroy(s) ==
    /\ _scope[s].identifier # <<>>
    /\ s \notin destroyed
    /\ destroyed' = destroyed \cup {s}
    /\ dumper_map' = IF _scope[s].updater = "nop_update" THEN dumper_map
                      ELSE [dumper_map EXCEPT ![_scope[s].updater] = "nop_dump"]
    /\ out' = <<>>
    /\ call' = "value"
    /\ UNCHANGED <<seq, _idx, _samples, _scope, _identifier, identifier_map,
                   vcd_scope, children, header_done, _timestamp, _tracepoint, last_time,
                   header_clean, alive, declared, issued, probe, returned>>

\* An access to memory that is not an object ends the process.
Fault ==
    /\ alive' = FALSE
    /\ out' = <<>>
    /\ call' = "fault"
    /\ UNCHANGED <<seq, _idx, _samples, _scope, _identifier, dumper_map,
                   identifier_map, vcd_scope, children, header_done, _timestamp,
                   _tracepoint, last_time, header_clean, destroyed, declared,
                   issued, probe, returned>>

\* module::register_var of the root after top::finalize_header, when the
\* read of instance_name through the reset _context does not fault: the
\* path starts with an indeterminate name and the registration goes on.
late_register_var(reg, s) ==
    LET r == register_var(reg, s)
    IN  [r EXCEPT !.identifier_map[r.identifier] =
                      <<Indet>> \o Tail(NodePath(NodeOf(s))) \o <<s>>]

\* A value of a child module is constructed with the module's add function
\* after top::finalize_header.  module::add_var of the child calls
\* module::register_var of the root, which dereferences the _context that
\* module::finalize_header has reset: undefined behaviour.  The read of the
\* null pointer faults, or it yields some name and the session registers
\* the value.
LateRegister(s) ==
    /\ header_done
    /\ NodeOf(s) # "root"
    /\ _scope[s].identifier = <<>>
    /\ s \notin destroyed
    /\ \/ Fault
       \/ /\ Registered(late_register_var(Registry, s))
          /\ out' = <<>>
          /\ call' = "value"
          /\ UNCHANGED <<seq, _idx, _samples, header_done, _timestamp,
                         _tracepoint, last_time, header_clean, alive,
                         destroyed, declared, probe, returned>>

\* ------------------------------------------------------------------------
\* Sessions that make at most MaxUpdates time updates after the header

\* The constructor arguments of the values: ka is given the default value 1,
\* ki none, flag either.
Defaults ==
    {default \in [Sigs -> {Indet, 1}] : default["ka"] = 1 /\ default["ki"] = Indet}

\* A call that is not a time update, while the session lasts.
Lasting == updates < MaxUpdates /\ UNCHANGED updates

\* A time update of the session.
Counted == updates < MaxUpdates /\ updates' = updates + 1

\* The arguments of the session's time updates.
SessionArgs == {1}

\* The states unknown() and undriven() set.
States == {"unknown_x", "undriven_z"}

\* Specification of a session that traces the two buffered values of mod1:
\* ka changes by set(), ki by unknown() and undriven().
Init == InitWith(<<"ka", "ki">>, {default \in Defaults : default["flag"] = Indet})

Next ==
    \/ \E v \in Values : header_done /\ Set("ka", v) /\ Lasting
    \/ \E S \in States : header_done /\ SetState("ki", S) /\ Lasting
    \/ SeqAdvance /\ Lasting
    \/ FinalizeHeader /\ Lasting
    \/ \E delta \in SessionArgs : TimeUpdateDelta(delta) /\ Counted
    \/ \E t \in SessionArgs : TimeUpdateAbs(t) /\ Counted

Spec == Init /\ [][Next]_vars

\* The calls of unknown() and undriven() on flag and ka.
StateCalls == {<<"flag", "unknown_x">>, <<"ka", "undriven_z">>}

\* Specification of a session that traces the unbuffered flag and the
\* buffered ka: flag changes by set() and unknown(), ka by set() and
\* undriven().
InitMix == InitWith(<<"flag", "ka">>, Defaults)

NextMix ==
    \/ \E s \in {"flag", "ka"}, v \in Values : header_done /\ Set(s, v) /\ Lasting
    \/ \E c \in StateCalls : header_done /\ SetState(c[1], c[2]) /\ Lasting
    \/ SeqAdvance /\ Lasting
    \/ FinalizeHeader /\ Lasting
    \/ \E delta \in SessionArgs : TimeUpdateDelta(delta) /\ Counted
    \/ \E t \in SessionArgs : TimeUpdateAbs(t) /\ Counted

SpecMix == InitMix /\ [][NextMix]_vars

\* ------------------------------------------------------------------------
\* Specification of a session that traces one buffered value, with any
\* number of time updates.

InitClock == InitWith(<<"ka">>, Defaults)

NextClock ==
    \/ \E v \in Values : Set("ka", v) /\ UNCHANGED updates
    \/ SeqAdvance /\ UNCHANGED updates
    \/ FinalizeHeader /\ UNCHANGED updates
    \/ \E delta \in TimeArgs : TimeUpdateDelta(delta) /\ UNCHANGED updates
    \/ \E t \in TimeArgs : TimeUpdateAbs(t) /\ UNCHANGED updates

SpecClock == InitClock /\ [][NextClock]_vars

\* ------------------------------------------------------------------------
\* Specification of an identifier_generator that is called again and again

\* identifier_generator k: a new generator.
InitGen ==
    InitFrom(NewSession, <<>>, {default \in Defaults : default["flag"] = Indet})

\* A generator that is three calls from filling the last column of its
\* array.
WornGenerator ==
    [i \in 1 .. IDENTIFIER_CAPACITY - 1 |->
        IF i = IDENTIFIER_CAPACITY - 1 THEN VCD_NAME_END - 2 ELSE VCD_NAME_END]

InitWorn ==
    InitFrom([NewSession EXCEPT !.identifier = WornGenerator], <<>>,
             {default \in Defaults : default["flag"] = Indet})

\* identifier_generator::next()
GenNext ==
    /\ Len(issued) < MaxCalls
    /\ \E r \in next_outcomes(_identifier) :
          /\ _identifier' = r.generator
          /\ issued' = Append(issued, r.returned)
    /\ UNCHANGED <<seq, _idx, _samples, _scope, dumper_map, identifier_map,
                   vcd_scope, children, header_done, _timestamp, _tracepoint, out, call,
                   last_time, header_clean, updates, alive, destroyed,
                   declared, probe, returned>>

NextGen == GenNext

SpecGen == InitGen /\ [][NextGen]_vars

NextWorn == GenNext

SpecWorn == InitWorn /\ [][NextWorn]_vars

\* ------------------------------------------------------------------------
\* Specification of one unbuffered value<T, BIT_SIZE> built on an add
\* function of the caller's own, which hands out the identifier `vv` and
\* keeps the dumper: the caller sets the value and calls the dumper.

\* "vv"
ProbeIdentifier == <<118, 118>>

\* The BIT_SIZE arguments the values are built with.
WidthsOf(T) ==
    IF T = "bool" THEN {1, 4}
    ELSE IF T = "int" THEN {1, 9, 17, 32}
    ELSE 1 .. bit_size(T)

\* value<T, BIT_SIZE> test_var(add_fn, name): no default value.
InitEnc ==
    /\ InitSession(NewSession, <<>>, {default \in Defaults : default["flag"] = Indet})
    /\ \E T \in Types : \E width \in WidthsOf(T) :
          probe = [type |-> T, width |-> width, write |-> -1,
                   smp |-> [sequence |-> None, state |-> "unknown_x",
                            value |-> Indet]]
    /\ returned = NotCalled

\* The session takes no part in a step on the probe.
ProbeStep ==
    /\ call' = "probe"
    /\ UNCHANGED <<seq, _idx, _samples, _scope, _identifier, dumper_map,
                   identifier_map, vcd_scope, children, header_done, _timestamp,
                   _tracepoint, last_time, header_clean, updates, alive,
                   destroyed, declared, issued, returned>>

\* value::set(v), TRACE_DEPTH == 1
ProbeSet(v) ==
    /\ \E changed \in sample_changed(v, probe.smp.value) :
          probe' = IF changed \/ probe.smp.state # "known"
                   THEN [probe EXCEPT !.write = 1,
                                      !.smp = sample_set(@, v, seq)]
                   ELSE probe
    /\ out' = <<>>
    /\ ProbeStep

\* value::unknown() and value::undriven(), TRACE_DEPTH == 1
ProbeSetState(S) ==
    /\ probe' = IF probe.smp.state # S
                THEN [probe EXCEPT !.write = 1,
                                   !.smp = sample_set_state(@, S, seq)]
                ELSE probe
    /\ out' = <<>>
    /\ ProbeStep

\* The values the branch of the floating point types can read from a
\* sample: the value stored, or any value when none was ever stored, the
\* member being uninitialized; the other branches read the value of a
\* known sample only.
ValuesRead(T, smp) ==
    IF is_floating_point(T) /\ smp.value = Indet THEN ValuesOf(T) ELSE {smp.value}

\* my_dumper(dump_out, true): value::dump, TRACE_DEPTH == 1
ProbeDump ==
    /\ \E v \in ValuesRead(probe.type, probe.smp) :
          out' = IF probe.write # 0
                 THEN <<ValueLine(ProbeIdentifier, probe.type, probe.width,
                                  [probe.smp EXCEPT !.value = v])>>
                 ELSE <<>>
    /\ probe' = [probe EXCEPT !.write = 0]
    /\ ProbeStep

NextEnc ==
    \/ \E v \in ValuesOf(probe.type) : ProbeSet(v)
    \/ \E S \in States : ProbeSetState(S)
    \/ ProbeDump

SpecEnc == InitEnc /\ [][NextEnc]_vars

\* Specification of one unbuffered value<float> or value<double>, built,
\* set and dumped in the same way.

\* bit_size<T>::value of the floating point types
RealWidth(T) == IF T = "float" THEN 32 ELSE 64

InitReal ==
    /\ InitSession(NewSession, <<>>, {default \in Defaults : default["flag"] = Indet})
    /\ \E T \in RealTypes :
          probe = [type |-> T, width |-> RealWidth(T), write |-> -1,
                   smp |-> [sequence |-> None, state |-> "unknown_x",
                            value |-> Indet]]
    /\ returned = NotCalled

NextReal ==
    \/ \E v \in ValuesOf(probe.type) : ProbeSet(v)
    \/ \E S \in States : ProbeSetState(S)
    \/ ProbeDump

SpecReal == InitReal /\ [][NextReal]_vars

\* ------------------------------------------------------------------------
\* Specification of the dumpers of flag and ka called one by one, the way
\* time_update_core calls them: with start = true, and then with
\* start = false as long as the last call has returned a next sequence.

InitBuf == InitWith(<<"flag", "ka">>, Defaults)

\* A call of the dumper of s; the session's stream and clock take no part.
DumperCall(s, start) ==
    /\ _scope[s].identifier # <<>>
    /\ LET r == dump(s, _idx[s], start)
       IN  /\ _idx' = [_idx EXCEPT ![s] = r.idx]
           /\ out' = r.lines
           /\ returned' = [value |-> s, dumped |-> r.dumped, next |-> r.next]
    /\ UNCHANGED <<seq, _samples, _scope, _identifier, dumper_map,
                   identifier_map, vcd_scope, children, header_done, _timestamp,
                   _tracepoint, last_time, header_clean, alive, destroyed,
                   declared, issued, probe>>

\* dump_fn(out, true)
DumpStart(s) ==
    /\ DumperCall(s, TRUE)
    /\ call' = "dump_start"

\* dump_fn(out, false), after a call that has returned a next sequence
DumpNext(s) ==
    /\ call \in {"dump_start", "dump_next"}
    /\ returned.value = s
    /\ returned.next # None
    /\ DumperCall(s, FALSE)
    /\ call' = "dump_next"

NextBuf ==
    \/ \E s \in {"flag", "ka"}, v \in Values : Set(s, v) /\ UNCHANGED updates
    \/ \E c \in StateCalls : SetState(c[1], c[2]) /\ UNCHANGED updates
    \/ SeqAdvance /\ UNCHANGED updates
    \/ \E s \in {"flag", "ka"} : DumpStart(s) /\ UNCHANGED updates
    \/ \E s \in {"flag", "ka"} : DumpNext(s) /\ UNCHANGED updates

SpecBuf == InitBuf /\ [][NextBuf]_vars

\* ------------------------------------------------------------------------
\* Specification of a session that traces ka and is ended by
\* finalize_trace, after any number of time updates.

\* The arguments of the time updates of the session.
FinalArgs == {0, 1}

InitFinal == InitWith(<<"ka">>, Defaults)

\* No call follows finalize_trace.
Tracing == call # "finalize_trace" /\ UNCHANGED updates

NextFinal ==
    \/ \E v \in Values : header_done /\ Set("ka", v) /\ Tracing
    \/ SeqAdvance /\ Tracing
    \/ FinalizeHeader /\ Tracing
    \/ \E delta \in FinalArgs : TimeUpdateDelta(delta) /\ Tracing
    \/ \E t \in FinalArgs : TimeUpdateAbs(t) /\ Tracing
    \/ FinalizeTrace /\ Tracing

SpecFinal == InitFinal /\ [][NextFinal]_vars

\* ------------------------------------------------------------------------
\* Specification of a session that traces flag and ka, makes at most
\* MaxUpdates time updates and is ended by finalize_trace.

InitEnd == InitWith(<<"flag", "ka">>, Defaults)

\* A call before finalize_trace that is not a time update.
LastingTrace == call # "finalize_trace" /\ UNCHANGED updates

\* A time update before finalize_trace.
CountedTrace == call # "finalize_trace" /\ Counted

NextEnd ==
    \/ \E s \in {"flag", "ka"}, v \in Values : header_done /\ Set(s, v) /\ LastingTrace
    \/ \E c \in StateCalls : header_done /\ SetState(c[1], c[2]) /\ LastingTrace
    \/ SeqAdvance /\ LastingTrace
    \/ FinalizeHeader /\ LastingTrace
    \/ \E delta \in SessionArgs : TimeUpdateDelta(delta) /\ CountedTrace
    \/ FinalizeTrace /\ LastingTrace

SpecEnd == InitEnd /\ [][NextEnd]_vars

\* ------------------------------------------------------------------------
\* Specification of the elaboration of a design hierarchy: modules are
\* declared below the root and below each other, values are declared in
\* them, and finalize_header writes the header.

\* top dumper("root"): no module below the root, nothing registered.
RootOnly ==
    [NewSession EXCEPT
        !.vcd_scope = [n \in Nodes |-> IF n = "root" THEN <<ScopeLine(n)>> ELSE <<>>],
        !.children = [n \in Nodes |-> <<>>]]

InitTree == InitFrom(RootOnly, <<>>, {default \in Defaults : default["flag"] = Indet})

\* module n(p, "n"), or p.get_module("n"): the constructor writes the
\* `$scope` line of the new instance and appends it to the children of p.
NewModule(p, n) ==
    /\ ~header_done
    /\ vcd_scope[p] # <<>>
    /\ vcd_scope[n] = <<>>
    /\ vcd_scope' = [vcd_scope EXCEPT ![n] = <<ScopeLine(n)>>]
    /\ children' = [children EXCEPT ![p] = Append(@, n)]
    /\ out' = <<>>
    /\ call' = "module"
    /\ UNCHANGED <<seq, _idx, _samples, _scope, _identifier, dumper_map,
                   identifier_map, header_done, _timestamp, _tracepoint,
                   last_time, header_clean>>
    /\ UNCHANGED lifetime

\* value<...> s(n.get_add_fn(), "s"): the constructor of a value registers
\* it with the add function of the module instance n.
Construct(n, s) ==
    /\ ~header_done
    /\ vcd_scope[n] # <<>>
    /\ _scope[s].identifier = <<>>
    /\ Registered(add_var(Registry, n, s))
    /\ out' = <<>>
    /\ call' = "value"
    /\ UNCHANGED <<seq, _idx, _samples, header_done, _timestamp, _tracepoint,
                   last_time, header_clean, alive, destroyed, declared,
                   probe, returned>>

NextTree ==
    \/ \E p \in Nodes, n \in Nodes \ {"root"} : NewModule(p, n) /\ UNCHANGED updates
    \/ \E n \in Nodes, s \in Sigs : Construct(n, s) /\ UNCHANGED updates
    \/ FinalizeHeader /\ UNCHANGED updates

SpecTree == InitTree /\ [][NextTree]_vars

\* ------------------------------------------------------------------------
\* Specification of a session whose values are elaborated again, destroyed
\* and constructed late: flag and ka are declared with the session, ki is
\* constructed after the header.

\* A dumper of the registry is the closure of a value that is destroyed.
Dangling == \E id \in DOMAIN dumper_map : dumper_map[id] \in destroyed

InitLife == InitWith(<<"flag", "ka">>, Defaults)

\* A flush with a dangling dumper calls a closure whose value is gone:
\* undefined behaviour.  It faults, or it runs on the memory the value has
\* left behind.
NextLife ==
    \/ \E s \in {"flag", "ka"} :
          alive /\ Elaborate(s) /\ Len(issued) < MaxRegistrations /\ Lasting
    \/ \E s \in Sigs : alive /\ Destroy(s) /\ Lasting
    \/ \E s \in Sigs : alive /\ LateRegister(s) /\ Lasting
    \/ \E s \in Sigs \ destroyed, v \in Values :
          alive /\ header_done /\ Set(s, v) /\ Lasting
    \/ alive /\ ~Dangling /\ FinalizeHeader /\ Lasting
    \/ \E delta \in SessionArgs :
          alive /\ ~Dangling /\ TimeUpdateDelta(delta) /\ Counted
    \/ alive /\ Dangling /\ FinalizeHeader /\ Lasting
    \/ \E delta \in SessionArgs :
          alive /\ Dangling /\ TimeUpdateDelta(delta) /\ Counted
    \/ alive /\ Dangling /\ Fault /\ Lasting

SpecLife == InitLife /\ [][NextLife]_vars

\* ------------------------------------------------------------------------
\* Vocabulary of the properties

IsValue(l) == l.k = "value"
IsTime(l) == l.k = "time"

Buffered(s) == Depth(s) > 1

\* The values that are registered with the session.
Traced == {s \in Sigs : _scope[s].identifier # <<>>}

\* The buffered values that are registered with the session.
TracedBuffers == {s \in Traced : Buffered(s)}

\* The samples a buffered value holds for the next flush, oldest first.
PendingSamples(s) ==
    IF _idx[s].write < 0 THEN <<>>
    ELSE LET n == IF _idx[s].write < Depth(s) THEN _idx[s].write + 1 ELSE Depth(s)
         IN  [i \in 1 .. n |-> _samples[s][i]]

\* The lines a flush is to write for a buffered value.
PendingLines(s) ==
    [i \in 1 .. Len(PendingSamples(s)) |->
        ValueLine(_scope[s].identifier, TypeOf(s), BitSize(s), PendingSamples(s)[i])]

\* The value lines of lines that carry the identifier id.
LinesOf(lines, id) == SelectSeq(lines, LAMBDA l : IsValue(l) /\ l.id = id)

\* The positions in lines of the lines of buffered samples.
BufferedAt(lines) ==
    {i \in 1 .. Len(lines) : IsValue(lines[i]) /\ lines[i].sequence # None}

\* No buffered value has recorded more samples than its depth.
NoOverflow == \A s \in TracedBuffers : _idx[s].write < Depth(s)

\* The step is a call of finalize_header or of a time update.
FlushStep == call' \in {"finalize_header", "time_update_delta", "time_update_abs"}

\* The time of the last `#` line before position i of lines, start when
\* there is none.
TimeInForce(lines, i, start) == LastTimeOf(SubSeq(lines, 1, i - 1), start)

\* ------------------------------------------------------------------------
\* C1  Merge ordering: when no buffered value has recorded more samples
\* than its depth, a flush (finalize_header or a time update) writes every
\* pending sample of every buffered value exactly once and in the order
\* recorded, the sequences of the lines written never decrease, and no `#`
\* line separates two samples of the same sequence.
C1_MergeOrder ==
    [][(FlushStep /\ NoOverflow) =>
         /\ \A s \in TracedBuffers :
                LinesOf(out', _scope[s].identifier) = PendingLines(s)
         /\ \A i, j \in BufferedAt(out') :
                i < j => out'[i].sequence <= out'[j].sequence
         /\ \A i, j \in BufferedAt(out') :
                (i < j /\ out'[i].sequence = out'[j].sequence)
                    => \A m \in i .. j : ~IsTime(out'[m])]_vars

\* A flush has written two samples of ka around one of ki, under three
\* different times.
C1_Witness ==
    /\ call \in {"time_update_delta", "time_update_abs"}
    /\ \E i, j, m \in BufferedAt(out) :
          /\ i < j /\ j < m
          /\ out[i].id = _scope["ka"].identifier
          /\ out[j].id = _scope["ki"].identifier
          /\ out[m].id = _scope["ka"].identifier
          /\ out[i].sequence < out[j].sequence
          /\ out[j].sequence < out[m].sequence

\* The timestamp the flush of the step runs with.
FlushTimestamp == IF call' = "finalize_header" THEN 0 ELSE _timestamp

\* The smallest sequence pending in the buffered values.
SmallestPending ==
    LET first == {PendingSamples(s)[1].sequence :
                    s \in {b \in TracedBuffers : PendingSamples(b) # <<>>}}
    IN  CHOOSE m \in first : \A n \in first : m <= n

\* ------------------------------------------------------------------------
\* C2  Synthesized sub-timestamps: in every flush each buffered sample of
\* sequence s is written while the time of the most recent `#` line is
\* T + (s - b) in sequence_t arithmetic, T being the timestamp the flush
\* starts with and b the smallest sequence pending at its start.
C2_SubTimestamps ==
    [][FlushStep =>
         \A i \in BufferedAt(out') :
            TimeInForce(out', i, _tracepoint)
                = (FlushTimestamp + (out'[i].sequence - SmallestPending)) % Modulus]_vars

\* The times of the `#` lines of lines, in order.
TimesOf(lines) ==
    LET marks == SelectSeq(lines, IsTime)
    IN  [i \in 1 .. Len(marks) |-> marks[i].t]

NonDecreasing(times) ==
    \A i \in 1 .. Len(times) - 1 : times[i] <= times[i + 1]

\* ------------------------------------------------------------------------
\* C3  Monotonic emitted time: the times of the `#` lines written by the
\* calls made after finalize_header never decrease in output order.
C3_MonotonicTime ==
    [][(header_done /\ header_clean)
          => NonDecreasing(<<last_time>> \o TimesOf(out'))]_vars

\* ------------------------------------------------------------------------
\* C4  Session clock invariant: after finalize_header, whatever set calls
\* and time updates follow, the tracepoint is at most the timestamp.
C4_TracepointBehindClock ==
    (header_done /\ header_clean) => _tracepoint <= _timestamp

\* ------------------------------------------------------------------------
\* C5  Backwards absolute time is ignored: for every t below the timestamp,
\* negative t included, time_update_abs(t) leaves the timestamp unchanged
\* and writes nothing but what its flush writes.
C5_BackwardsAbsIgnored ==
    [][\A t \in TimeArgs :
          (t < _timestamp /\ TimeUpdateAbs(t))
              => /\ _timestamp' = _timestamp
                 /\ out' = time_update_core(_timestamp, CallIO).out]_vars

\* ------------------------------------------------------------------------
\* C6  Absolute time clamp and adopt: with tp the tracepoint after the flush
\* of time_update_abs(t), timestamp <= t <= tp makes the timestamp tp and
\* writes no `#` line; t > tp makes timestamp and tracepoint t and writes
\* the one line `#t`.
C6_AbsClampAdopt ==
    [][\A t \in TimeArgs :
          TimeUpdateAbs(t) =>
              LET flushed == time_update_core(_timestamp, CallIO)
              IN  /\ (_timestamp <= t /\ t <= flushed.tp)
                        => /\ _timestamp' = flushed.tp
                           /\ out' = flushed.out
                  /\ (_timestamp <= t /\ t > flushed.tp)
                        => /\ _timestamp' = t
                           /\ _tracepoint' = t
                           /\ out' = Append(flushed.out, TimeLine(t))]_vars

\* ------------------------------------------------------------------------
\* C7  Delta time clamp: for every d, time_update_delta(d) leaves the
\* timestamp at the larger of the old timestamp plus d and the tracepoint
\* after the flush.
C7_DeltaClamp ==
    [][\A d \in TimeArgs :
          TimeUpdateDelta(d) =>
              LET sum == _timestamp + d
                  tp == time_update_core(_timestamp, CallIO).tp
              IN  _timestamp' = IF sum >= tp THEN sum ELSE tp]_vars

\* The step is a call of a time update.
UpdateStep == call' \in {"time_update_delta", "time_update_abs"}

\* The step is a time update that sets the clock: every time_update_delta,
\* and every time_update_abs whose time is not below the timestamp.
ClockSet ==
    \/ call' = "time_update_delta"
    \/ \E t \in TimeArgs : ToUnsigned(t) >= _timestamp /\ TimeUpdateAbs(t)

\* The line of an unbuffered value that has a change to write.
DirtyLine(s) ==
    ValueLine(_scope[s].identifier, TypeOf(s), BitSize(s), Slot(_samples[s], 0))

\* The step has written what the flush of time_update_core writes, in which
\* every sample recorded before the step is found, and after it at most
\* one line, the `#` line of the new timestamp.
FlushThenTime ==
    LET flushed == time_update_core(_timestamp, CallIO).out
    IN  /\ \A s \in TracedBuffers :
              \A n \in 1 .. Len(PendingLines(s)) :
                 \E i \in 1 .. Len(flushed) : flushed[i] = PendingLines(s)[n]
        /\ \A s \in Traced \ TracedBuffers :
              _idx[s].write # 0
                 => \E i \in 1 .. Len(flushed) : flushed[i] = DirtyLine(s)
        /\ out' \in {flushed, Append(flushed, TimeLine(_timestamp'))}

C8_ClampWitness ==
    /\ call \in {"time_update_delta", "time_update_abs"}
    /\ Len(out) >= 3
    /\ IsValue(out[Len(out)])
    /\ \E i \in 1 .. Len(out) : IsTime(out[i]) /\ out[i].t = _timestamp
    /\ _tracepoint = _timestamp

\* ------------------------------------------------------------------------
\* C9  finalize_header writes the date, timescale and version banner, the
\* text of the scope tree, `$enddefinitions $end` and `#0`, in this order,
\* also when no value has anything pending, and leaves the timestamp at 0.
C9_HeaderOrder ==
    call = "finalize_header" =>
        LET tree == scope_text("root")
            e == 3 + Len(tree) + 1
        IN  /\ Len(out) >= e + 1
            /\ SubSeq(out, 1, 3) = <<DateLine, TimescaleLine, VersionLine>>
            /\ SubSeq(out, 4, e - 1) = tree
            /\ tree[1] = ScopeLine("root")
            /\ tree[Len(tree)] = UpscopeLine
            /\ out[e] = EndDefinitionsLine
            /\ out[e + 1] = TimeLine(0)
            /\ _timestamp = 0

\* finalize_header has run with nothing pending: `#0` is its last line.
C9_Witness ==
    /\ call = "finalize_header"
    /\ out[Len(out)] = TimeLine(0)
    /\ out[Len(out) - 1] = EndDefinitionsLine

\* ------------------------------------------------------------------------
\* C10  Initial value at time 0: finalize_header writes, after the `#0`
\* line, the initial state of every registered value, whatever its depth:
\* the constructor's default value, or `x` without one.
C10_InitialValues ==
    call = "finalize_header" =>
        \A s \in Traced :
            \E i \in 2 .. Len(out) :
                /\ \E z \in 1 .. i - 1 : out[z] = TimeLine(0)
                /\ out[i] = ValueLine(_scope[s].identifier, TypeOf(s), BitSize(s),
                                      Slot(_samples[s], 0))

\* ------------------------------------------------------------------------
\* C11  No registration after finalization: a registration attempted after
\* finalize_header, through a module that still exists, leaves the
\* identifier maps of the session unchanged, and every value line a flush
\* writes carries an identifier that the header has declared in a `$var`
\* line.
C11_NoLateRegistration ==
    [][/\ (\E s \in Sigs : LateRegister(s))
            => /\ dumper_map' = dumper_map
               /\ identifier_map' = identifier_map
       /\ FlushStep
            => \A i \in 1 .. Len(out') :
                  IsValue(out'[i]) => out'[i].id \in declared']_vars

\* The value an identifier was issued to.
OwnerOf(id) == identifier_map[id][Len(identifier_map[id])]

\* ------------------------------------------------------------------------
\* C12  Destruction safety: whatever the values were constructed,
\* elaborated and destroyed, every dumper the registry holds under an
\* identifier of a destroyed value is nop_dump, which writes nothing and
\* returns the end sequence, and no flush writes a line that carries an
\* identifier of a destroyed value.
C12_DestructionSafety ==
    [][/\ \A id \in DOMAIN dumper_map' :
             OwnerOf(id)' \in destroyed' => dumper_map'[id] = "nop_dump"
       /\ nop_dump = [lines |-> <<>>, dumped |-> None, next |-> None]
       /\ FlushStep
            => \A i \in 1 .. Len(out') :
                  IsValue(out'[i]) => OwnerOf(out'[i].id) \notin destroyed]_vars

\* ------------------------------------------------------------------------
\* C13  Identifier uniqueness: however often next() is called on one
\* generator, every identifier it returns is different from every
\* identifier it has returned before.
C13_UniqueIdentifiers ==
    \A i, j \in 1 .. Len(issued) : i < j => issued[i] # issued[j]

\* The number of symbols identifier_generator::next uses.
Symbols == (VCD_NAME_END - VCD_NAME_START) + 1

RECURSIVE Rank(_)
\* The number an identifier stands for when it is read as a numeral of the
\* bijective base-Symbols system, VCD_NAME_START being the digit 1.
Rank(id) ==
    IF id = <<>> THEN 0
    ELSE Rank(SubSeq(id, 1, Len(id) - 1)) * Symbols
         + (id[Len(id)] - VCD_NAME_START) + 1

C15_ShortlexOrder ==
    /\ \A i \in 1 .. Len(issued) - 1 :
          /\ Len(issued[i]) <= Len(issued[i + 1])
          /\ Len(issued[i]) = Len(issued[i + 1])
                => StringLess(issued[i], issued[i + 1])
          /\ Len(issued[i]) < Len(issued[i + 1])
                => /\ \A c \in 1 .. Len(issued[i]) : issued[i][c] = VCD_NAME_END
                   /\ \A c \in 1 .. Len(issued[i + 1]) :
                         issued[i + 1][c] = VCD_NAME_START
          /\ Rank(issued[i + 1]) = Rank(issued[i]) + 1
    /\ Len(issued) > 0 => issued[1] = <<33>>
    /\ Len(issued) > 8 => issued[9] = <<41>>
    /\ Len(issued) > 89 => issued[90] = <<122>>
    /\ Len(issued) > 90 => issued[91] = <<33, 33>>
    /\ Len(issued) > 91 => issued[92] = <<33, 34>>
    /\ Len(issued) > 179 => issued[180] = <<33, 122>>
    /\ Len(issued) > 180 => issued[181] = <<34, 33>>

\* next() has been called 181 times: the last call has carried into the
\* first symbol.
C15_Witness ==
    /\ Len(issued) = 181
    /\ Len(issued[181]) = 2
    /\ issued[181][1] = VCD_NAME_START + 1

\* ------------------------------------------------------------------------
\* The value line the dumper of the probe has just written, if any.
ProbeLines == IF call = "probe" THEN out ELSE <<>>

\* The one character of a scalar value change.
ScalarCharacter(smp) ==
    IF smp.state = "unknown_x" THEN "x"
    ELSE IF smp.state = "undriven_z" THEN "z"
    ELSE IF smp.value # 0 THEN "1" ELSE "0"

\* C16  Scalar encoding, as the claim states it: for every signal whose
\* bit_width is 1, a value line is exactly one character (`1`, `0`, `x` or
\* `z`) immediately followed by the identifier, with no `b` prefix and no
\* separator.
C16_ScalarByWidth ==
    \A i \in DOMAIN ProbeLines :
        probe.width = 1
            => /\ ProbeLines[i].text = <<ScalarCharacter(probe.smp)>>
               /\ ProbeLines[i].id = ProbeIdentifier

\* C16  Scalar encoding, as the code has it: for every signal whose storage
\* type is bool, whatever its bit_width, a value line is exactly one
\* character (`1` for Known(true), `0` for Known(false), `x` for Unknown,
\* `z` for Undriven) immediately followed by the identifier, with no `b`
\* prefix and no separator; a signal of an integer type is written with
\* the `b` prefix and the separator also when its bit_width is 1.
C16_ScalarByType ==
    \A i \in DOMAIN ProbeLines :
        /\ ProbeLines[i].id = ProbeIdentifier
        /\ probe.type = "bool"
              => ProbeLines[i].text = <<ScalarCharacter(probe.smp)>>
        /\ probe.type # "bool"
              => /\ Len(ProbeLines[i].text) >= 3
                 /\ Head(ProbeLines[i].text) = "b"
                 /\ ProbeLines[i].text[Len(ProbeLines[i].text)] = " "

\* The dumper has written `zvv` for a value<bool> that is undriven after it
\* was set to true.
C16_Witness ==
    /\ Len(ProbeLines) = 1
    /\ probe.type = "bool"
    /\ probe.width = 1
    /\ probe.smp.state = "undriven_z"
    /\ probe.smp.value = 1

\* ------------------------------------------------------------------------
\* C17  Vector unknown/undriven encoding, as the claim states it: for every
\* signal with bit_width > 1 whose state is Unknown or Undriven, the value
\* line is `bx <id>` or `bz <id>`, whatever value is stored and whatever
\* the width.
C17_VectorStateByWidth ==
    \A i \in DOMAIN ProbeLines :
        probe.width > 1 /\ probe.smp.state # "known"
            => ProbeLines[i].text
                   = <<"b", IF probe.smp.state = "unknown_x" THEN "x" ELSE "z", " ">>

\* C17  Vector unknown/undriven encoding, as the code has it: for every
\* signal of an integer storage type whose state is Unknown or Undriven,
\* the value line is `bx <id>` or `bz <id>`, whatever value is stored and
\* whatever the width.
C17_VectorStateByType ==
    \A i \in DOMAIN ProbeLines :
        probe.type # "bool" /\ probe.smp.state # "known"
            => /\ ProbeLines[i].text
                      = <<"b", IF probe.smp.state = "unknown_x" THEN "x" ELSE "z", " ">>
               /\ ProbeLines[i].id = ProbeIdentifier

\* The dumper has written `bz vv` for a value<int, 9> that is undriven
\* after it was set to 0x155.
C17_Witness ==
    /\ Len(ProbeLines) = 1
    /\ probe.type = "int"
    /\ probe.width = 9
    /\ probe.smp.state = "undriven_z"
    /\ probe.smp.value = 341

\* ------------------------------------------------------------------------
\* Bit i of the two's complement representation of v; bit 31 of an int is
\* its sign.
BitOf(v, i) ==
    IF i = 31 THEN (IF v < 0 THEN "1" ELSE "0")
    ELSE IF (v \div 2 ^ i) % 2 = 1 THEN "1" ELSE "0"

\* The width-bit binary representation of v, most significant bit first.
Binary(v, width) == [i \in 1 .. width |-> BitOf(v, width - i)]

RECURSIVE Collapsed(_)
\* A bit string with the leading run of bits equal to the first one
\* collapsed to a single bit.
Collapsed(bits) ==
    IF Len(bits) > 1 /\ bits[1] = bits[2] THEN Collapsed(Tail(bits))
    ELSE bits

\* C18  Bit-run compaction: for every bit_width W > 1 and every Known value
\* v of a signed or unsigned integer type, W equal to the full width of the
\* type included, the bit string of the value line is the W-bit binary
\* representation of v, most significant bit first, with the leading run of
\* bits equal to the most significant bit collapsed to a single bit; it has
\* at least 1 and at most W characters.
C18_BitRunCompaction ==
    \A i \in DOMAIN ProbeLines :
        probe.type # "bool" /\ probe.width > 1 /\ probe.smp.state = "known"
            => /\ ProbeLines[i].text
                      = <<"b">> \o Collapsed(Binary(probe.smp.value, probe.width))
                               \o <<" ">>
               /\ Len(ProbeLines[i].text) - 2 \in 1 .. probe.width

\* ------------------------------------------------------------------------
\* An unbuffered value has a change to write: _idx.write is not 0.
Dirty(ix) == ix.write # 0

\* C19  Unbuffered signal (TRACE_DEPTH = 1): set(v) marks the signal dirty
\* exactly when v differs from the stored value or the state is not Known,
\* and then stores Known(v); unknown() and undriven() mark it exactly when
\* the state differs, and then store the state; otherwise the call leaves
\* the signal as it is.  A flush writes exactly one line for a dirty
\* signal, with its latest value and state, and clears dirty; for a signal
\* that is not dirty it writes nothing, so the second of two flushes with
\* no call in between writes nothing for it.
C19_UnbufferedDirty ==
    [][\A s \in Traced \ TracedBuffers :
          LET stored == Slot(_samples[s], 0)
              marked == Dirty(_idx'[s]) /\ ~Dirty(_idx[s])
          IN  /\ \A v \in Values :
                    Set(s, v)
                       => IF v # stored.value \/ stored.state # "known"
                          THEN /\ Dirty(_idx'[s])
                               /\ Slot(_samples'[s], 0).state = "known"
                               /\ Slot(_samples'[s], 0).value = v
                          ELSE /\ ~marked
                               /\ _samples'[s] = _samples[s]
              /\ \A S \in States :
                    SetState(s, S)
                       => IF stored.state # S
                          THEN /\ Dirty(_idx'[s])
                               /\ Slot(_samples'[s], 0).state = S
                          ELSE /\ ~marked
                               /\ _samples'[s] = _samples[s]
              /\ FlushStep
                    => /\ LinesOf(out', _scope[s].identifier)
                              = IF Dirty(_idx[s]) THEN <<DirtyLine(s)>> ELSE <<>>
                       /\ ~Dirty(_idx'[s])
                       /\ _samples'[s] = _samples[s]]_vars

\* A time update has written the line of flag, which was set to false
\* after the header had written its default value.
C19_Witness ==
    /\ call \in {"time_update_delta", "time_update_abs"}
    /\ Len(LinesOf(out, _scope["flag"].identifier)) = 1
    /\ ~Dirty(_idx["flag"])
    /\ Slot(_samples["flag"], 0).state = "known"
    /\ Slot(_samples["flag"], 0).value = 0

\* ------------------------------------------------------------------------
\* The slot holds the sample smp, tagged with the current sequence.
Holds(slot, smp) ==
    /\ slot.sequence = seq
    /\ slot.state = smp.state
    /\ smp.state = "known" => slot.value = smp.value

\* The newest pending slot of a buffered value holds the sample smp already.
SameAsNewest(s, smp) ==
    LET newest == Slot(_samples[s], _idx[s].write)
    IN  /\ newest.state = smp.state
        /\ smp.state = "known" => newest.value = smp.value

\* The slots of s below position n are left as they are.
SlotsKept(s, n) == \A i \in 0 .. n - 1 : Slot(_samples'[s], i) = Slot(_samples[s], i)

\* The step records the sample smp in the buffered value s by the rules (i)
\* to (iv), while a slot is free for it.
WriteRule(s, smp) ==
    LET w == _idx[s].write
    IN  /\ _idx'[s].read = _idx[s].read
        /\ w = -1
              => /\ _idx'[s].write = 0
                 /\ Holds(Slot(_samples'[s], 0), smp)
        /\ (w >= 0 /\ w < Depth(s) /\ SameAsNewest(s, smp))
              => /\ _idx'[s] = _idx[s]
                 /\ _samples'[s] = _samples[s]
        /\ (w >= 0 /\ w + 1 < Depth(s) /\ ~SameAsNewest(s, smp)
               /\ Slot(_samples[s], w).sequence # seq)
              => /\ _idx'[s].write = w + 1
                 /\ Holds(Slot(_samples'[s], w + 1), smp)
                 /\ SlotsKept(s, w + 1)
        /\ (w >= 0 /\ w < Depth(s) /\ ~SameAsNewest(s, smp)
               /\ Slot(_samples[s], w).sequence = seq)
              => /\ _idx'[s].write = w
                 /\ Holds(Slot(_samples'[s], w), smp)
                 /\ SlotsKept(s, w)

\* C20  Buffered signal (TRACE_DEPTH > 1) write rule: set(v), and unknown()
\* and undriven() for states, (i) on an empty buffer stores the sample in a
\* new slot tagged with the current sequence; (ii) changes nothing when the
\* newest pending slot holds the same Known value (the same state) already,
\* even if the sequence has advanced; (iii) appends a new slot when the
\* sample differs from the newest pending slot and the sequence has
\* advanced since that slot was written; (iv) overwrites the newest pending
\* slot in place when the sample differs and the sequence has not advanced.
\* A flush therefore writes, per signal, at most one sample per sequence
\* value: the last one recorded at that sequence.
C20_BufferedWriteRule ==
    [][\A s \in TracedBuffers :
          /\ \A v \in Values :
                Set(s, v) => WriteRule(s, [state |-> "known", value |-> v])
          /\ \A S \in States :
                SetState(s, S) => WriteRule(s, [state |-> S, value |-> Indet])
          /\ FlushStep
                => LET written == LinesOf(out', _scope[s].identifier)
                   IN  /\ \A i, j \in 1 .. Len(written) :
                             i < j => written[i].sequence # written[j].sequence
                       /\ \A i \in 1 .. Len(written) :
                             \E n \in 1 .. Len(PendingLines(s)) :
                                written[i] = PendingLines(s)[n]]_vars

\* ------------------------------------------------------------------------
\* The buffered value holds as many pending samples as it has slots.
Full(s) == _idx[s].write >= Depth(s) - 1

\* The call records at a later sequence than the newest slot was written.
LaterSequence(s) ==
    _idx[s].write >= Depth(s) \/ Slot(_samples[s], Depth(s) - 1).sequence # seq

\* C21  Buffer overflow drops excess samples: when a buffered signal holds
\* as many pending samples as its capacity, every further set, unknown or
\* undriven at a later sequence before the next flush leaves the stored
\* samples unchanged; the next flush writes exactly those samples, once
\* each, in the order recorded, and leaves the buffer empty.
C21_OverflowDrop ==
    [][\A s \in TracedBuffers :
          /\ (Full(s) /\ LaterSequence(s)
                /\ \/ \E v \in Values : Set(s, v)
                   \/ \E S \in States : SetState(s, S))
                => /\ _samples'[s] = _samples[s]
                   /\ PendingSamples(s)' = PendingSamples(s)
          /\ (FlushStep /\ Full(s))
                => /\ LinesOf(out', _scope[s].identifier) = PendingLines(s)
                   /\ \A i \in 1 .. Len(PendingLines(s)) - 1 :
                         PendingLines(s)[i].sequence < PendingLines(s)[i + 1].sequence
                   /\ _idx'[s].write = -1]_vars

\* ------------------------------------------------------------------------
\* scope_fn::end_sequence, as the dumper of s returns it.
EndSequence(s) == [value |-> s, dumped |-> None, next |-> None]

\* The step is a call of the dumper of s with start = true.
PeekStep(s) == call' = "dump_start" /\ returned'.value = s

\* The step is a call of the dumper of s with start = false.
ConsumeStep(s) == call' = "dump_next" /\ returned'.value = s

\* C22  Peek contract: dump(start = true) on a buffered signal writes
\* nothing and consumes nothing, and returns dumped = None with next = the
\* sequence of the oldest pending sample, or {None, None} when nothing is
\* pending, so that a peek that follows a peek returns the same; dump on an
\* unbuffered signal returns {None, None} on every call.
C22_PeekContract ==
    [][\A s \in Traced :
          /\ (PeekStep(s) /\ Buffered(s))
                => /\ out' = <<>>
                   /\ _samples'[s] = _samples[s]
                   /\ PendingSamples(s)' = PendingSamples(s)
                   /\ returned' = IF PendingSamples(s) = <<>> THEN EndSequence(s)
                                  ELSE [value |-> s, dumped |-> None,
                                        next |-> PendingSamples(s)[1].sequence]
                   /\ (call = "dump_start" /\ returned.value = s)
                         => returned' = returned
          /\ ((PeekStep(s) \/ ConsumeStep(s)) /\ ~Buffered(s))
                => returned' = EndSequence(s)]_vars

\* A peek of ka, which holds two samples, has written nothing and has
\* returned the sequence of the older sample.
C22_Witness ==
    /\ call = "dump_start"
    /\ returned.value = "ka"
    /\ Len(PendingSamples("ka")) = 2
    /\ returned.next = PendingSamples("ka")[1].sequence
    /\ _idx["ka"].read = 0
    /\ out = <<>>

\* ------------------------------------------------------------------------
\* C23  Consume contract: with k samples pending at sequences
\* s_0 < ... < s_(k-1) on a buffered signal, after one peek the i-th call
\* dump(start = false) (i = 0 .. k-1) writes sample i, returns
\* dumped = s_i, and returns next = s_(i+1) for i < k-1 and next = None for
\* i = k-1, after which the buffer is in its empty state; for every k, also
\* when more samples were recorded than the buffer holds.
C23_ConsumeContract ==
    [][\A s \in TracedBuffers :
          LET i == _idx[s].read
              k == Len(PendingSamples(s))
          IN  (ConsumeStep(s) /\ i < k)
                 => /\ out' = <<PendingLines(s)[i + 1]>>
                    /\ returned'.dumped = PendingSamples(s)[i + 1].sequence
                    /\ i < k - 1
                          => returned'.next = PendingSamples(s)[i + 2].sequence
                    /\ i = k - 1
                          => /\ returned'.next = None
                             /\ _idx'[s].write = -1]_vars

\* ------------------------------------------------------------------------
\* The step is a call of finalize_trace.
FinalStep == call' = "finalize_trace"

\* The greatest distance between two sequences pending in ka.
PendingSpan ==
    IF PendingSamples("ka") = <<>> THEN 0
    ELSE PendingSamples("ka")[Len(PendingSamples("ka"))].sequence
            - PendingSamples("ka")[1].sequence

\* No addition of finalize_trace leaves the range of sequence_t.
NoWrap ==
    /\ _timestamp + PendingSpan + 1 + TerminalInterval < Modulus
    /\ time_update_core(_timestamp, CallIO).tp + TerminalInterval < Modulus

\* The positions of the value lines in lines.
ValuesAt(lines) == {i \in 1 .. Len(lines) : IsValue(lines[i])}

\* C24  finalize_trace flushes and closes the trace: after it returns no
\* signal has pending data, every sample that was pending has been written,
\* and the last line of the output is a `#` line whose time is strictly
\* greater than every time written before it and at least the terminal
\* interval (1000 ns) after the time in force when the last value was
\* written.  The additions of the call are taken not to wrap.
C24_FinalizeTrace ==
    [][(FinalStep /\ NoWrap) =>
         /\ \A s \in TracedBuffers :
                /\ _idx'[s].write = -1
                /\ \A n \in 1 .. Len(PendingLines(s)) :
                      \E i \in 1 .. Len(out') : out'[i] = PendingLines(s)[n]
         /\ out' # <<>>
         /\ IsTime(out'[Len(out')])
         /\ \A i \in 1 .. Len(out') - 1 :
                IsTime(out'[i]) => out'[i].t < out'[Len(out')].t
         /\ last_time # None => last_time < out'[Len(out')].t
         /\ \A i \in ValuesAt(out') :
                TimeInForce(out', i, _tracepoint) + TerminalInterval
                    <= out'[Len(out')].t]_vars

\* ------------------------------------------------------------------------
\* The value has a change that the next flush is to write.
HasChange(s) == IF Buffered(s) THEN _idx[s].write >= 0 ELSE Dirty(_idx[s])

\* The slot of the value that was written last.
Newest(s) == Slot(_samples[s], IF Buffered(s) THEN _idx[s].write % Depth(s) ELSE 0)

\* The value holds the sample of the call as its newest one, in a slot.
Recorded(s, state, v) ==
    /\ Buffered(s) => _idx[s].write \in 0 .. Depth(s) - 1
    /\ Newest(s).state = state
    /\ state = "known" => Newest(s).value = v

\* The buffer has taken a call it had no free slot for.
Overflowed(s) == Buffered(s) /\ _idx[s].write >= Depth(s)

\* The step is a call that writes what the values hold: finalize_header, a
\* time update or finalize_trace.
Flushing == FlushStep \/ FinalStep

\* The step is a call on the value s.
CallOn(s) == (\E v \in Values : Set(s, v)) \/ (\E S \in States : SetState(s, S))

\* What the calls of a trace do for the final value of s, where kept says
\* that s had dropped no call before the step and keeps that it has dropped
\* none after it: a set, unknown or undriven leaves its value or state as
\* the newest sample of s; finalize_header, a time update or finalize_trace
\* writes the newest sample as the last line of s when s has a change to write and no
\* line of s otherwise, and leaves s without a change to write; every
\* other step leaves s as it is.
FinalValue(s, kept, keeps) ==
    /\ \A v \in Values : (Set(s, v) /\ keeps) => Recorded(s, "known", v)'
    /\ \A S \in States : (SetState(s, S) /\ keeps) => Recorded(s, S, 0)'
    /\ (Flushing /\ kept)
          => LET lines == LinesOf(out', _scope[s].identifier)
             IN  /\ IF HasChange(s)
                    THEN /\ lines # <<>>
                         /\ lines[Len(lines)]
                               = ValueLine(_scope[s].identifier, TypeOf(s),
                                           BitSize(s), Newest(s))
                    ELSE lines = <<>>
                 /\ ~HasChange(s)'
    /\ (~Flushing /\ ~CallOn(s))
          => /\ HasChange(s)' = HasChange(s)
             /\ HasChange(s) => Newest(s)' = Newest(s)

\* The values that are registered and have not been destroyed.
Live == Traced \ destroyed

ScopeTree(lines) ==
    LET e == CHOOSE i \in 1 .. Len(lines) : lines[i] = EndDefinitionsLine
    IN  SubSeq(lines, 4, e - 1)

\* The number of lines of kind k among the first i lines.
Count(lines, i, k) == Cardinality({j \in 1 .. i : lines[j].k = k})

\* The scopes that are open after line i.
OpenAfter(lines, i) == Count(lines, i, "scope") - Count(lines, i, "upscope")

\* The position of the `$scope` line of the module instance n.
OpenOf(lines, n) == CHOOSE i \in 1 .. Len(lines) : lines[i] = ScopeLine(n)

\* The position of the `$upscope` line that closes the scope opened at i.
CloseOf(lines, i) ==
    CHOOSE j \in i + 1 .. Len(lines) :
        /\ OpenAfter(lines, j) = OpenAfter(lines, i) - 1
        /\ \A m \in i .. j - 1 : OpenAfter(lines, m) >= OpenAfter(lines, i)

\* The module instances that have been declared.
Declared == {n \in Nodes : vcd_scope[n] # <<>>}

\* C26  Scope nesting: the header text is the pre-order depth-first walk of
\* the module tree with children in creation order: every module instance
\* has one `$scope` line, followed by its own `$var` lines, then by the
\* text of its children in the order they were created, each inside the
\* scope of its parent and closed before the next one opens.  Every
\* `$scope` is matched by one later `$upscope`: the counts are equal, no
\* prefix has more closes than opens, and only the last line closes the
\* scope of the root.
C26_ScopeNesting ==
    call = "finalize_header" =>
        LET tree == ScopeTree(out)
            open(n) == OpenOf(tree, n)
            close(n) == CloseOf(tree, open(n))
        IN  /\ Count(tree, Len(tree), "scope") = Cardinality(Declared)
            /\ Count(tree, Len(tree), "upscope") = Cardinality(Declared)
            /\ \A i \in 1 .. Len(tree) - 1 : OpenAfter(tree, i) > 0
            /\ OpenAfter(tree, Len(tree)) = 0
            /\ open("root") = 1
            /\ \A n \in Declared :
                   /\ Cardinality({i \in 1 .. Len(tree) : tree[i] = ScopeLine(n)}) = 1
                   /\ SubSeq(tree, open(n), open(n) + Len(vcd_scope[n]) - 1) = vcd_scope[n]
                   /\ tree[close(n)] = UpscopeLine
                   /\ \A i \in 1 .. Len(children[n]) :
                          /\ open(n) + Len(vcd_scope[n]) <= open(children[n][i])
                          /\ close(children[n][i]) < close(n)
                          /\ OpenAfter(tree, open(children[n][i]))
                                = OpenAfter(tree, open(n)) + 1
                          /\ i = 1 => open(children[n][i]) = open(n) + Len(vcd_scope[n])
                          /\ i > 1 => open(children[n][i])
                                         = close(children[n][i - 1]) + 1

\* The header is written for a tree in which the root has two children and
\* one of the modules below the root has a child and a value of its own.
C26_Witness ==
    /\ call = "finalize_header"
    /\ Len(children["root"]) = 2
    /\ \E n \in Nodes \ {"root"} : children[n] # <<>> /\ Len(vcd_scope[n]) > 1

\* ------------------------------------------------------------------------
\* The sequences of module instances that lead from the root down to n,
\* each one a child of the one before it.
ChainsTo(n) ==
    {p \in UNION {[1 .. k -> Nodes] : k \in 1 .. Cardinality(Nodes)} :
        /\ p[1] = "root"
        /\ p[Len(p)] = n
        /\ \A i \in 1 .. Len(p) - 1 :
               \E j \in 1 .. Len(children[p[i]]) : children[p[i]][j] = p[i + 1]}

\* C27  Registration routing: a variable named v that is registered at a
\* scope node reaches the session with the path of the instance names from
\* the root down to that node, followed by v (the elements stand for the
\* names joined by `.`); the identifier and the updater the session has
\* allocated come back unchanged to the signal, and that identifier is the
\* one written in the `$var` line of the node.
C27_RegistrationRouting ==
    [][\A n \in Nodes, s \in Sigs :
          Construct(n, s)
             => LET id == _scope'[s].identifier
                IN  /\ DOMAIN identifier_map' = DOMAIN identifier_map \cup {id}
                    /\ id \notin DOMAIN identifier_map
                    /\ \E p \in ChainsTo(n) : identifier_map'[id] = p \o <<s>>
                    /\ dumper_map'[id] = s
                    /\ _scope'[s].updater = id
                    /\ vcd_scope'[n]
                          = Append(vcd_scope[n], VarLine("wire", BitSize(s), id, s))
                    /\ \A m \in Nodes \ {n} : vcd_scope'[m] = vcd_scope[m]
                    /\ \A k \in DOMAIN identifier_map :
                           /\ identifier_map'[k] = identifier_map[k]
                           /\ dumper_map'[k] = dumper_map[k]]_vars

\* A value is registered from a module two levels below the root: its path
\* has four elements.
C27_Witness ==
    \E k \in DOMAIN identifier_map :
        /\ Len(identifier_map[k]) = 4
        /\ \E s \in Sigs : _scope[s].identifier = k /\ identifier_map[k][4] = s

\* ------------------------------------------------------------------------
\* The identifiers the registry holds for the value s.
IdentifiersOf(s) == {id \in DOMAIN identifier_map : OwnerOf(id) = s}

\* The identifiers of the `$var` lines that the module instances hold for
\* the value s.
VarIdentifiersOf(s) ==
    UNION {{vcd_scope[n][i].id :
               i \in {j \in 1 .. Len(vcd_scope[n]) :
                         vcd_scope[n][j].k = "var" /\ vcd_scope[n][j].name = s}} :
           n \in Nodes}

\* C28  One identifier per signal, in registration order: for any sequence
\* of registrations the n-th registration has received the n-th output of
\* the identifier generator and is filed in the registry under it, each
\* registered signal has exactly one identifier, each identifier of the
\* registry maps to the callback of one signal, which is alive, or to the
\* no-op of a destroyed one, and the identifier of the `$var` line of a
\* signal is the identifier on all of its value lines.
C28_OneIdentifierPerSignal ==
    /\ \A n \in 1 .. Len(issued) :
           /\ Rank(issued[n]) = n
           /\ issued[n] \in DOMAIN identifier_map
           /\ issued[n] \in DOMAIN dumper_map
    /\ \A s \in Traced : IdentifiersOf(s) = {_scope[s].identifier}
    /\ \A id \in DOMAIN dumper_map :
           IF OwnerOf(id) \in destroyed THEN dumper_map[id] = "nop_dump"
           ELSE dumper_map[id] = OwnerOf(id)
    /\ \A i \in 1 .. Len(out) :
           IsValue(out[i]) => VarIdentifiersOf(OwnerOf(out[i].id)) = {out[i].id}

\* ------------------------------------------------------------------------
\* The sequence of the sample at position i of the buffer of s.
SequenceAt(s, i) == Slot(_samples[s], i % Depth(s)).sequence

\* C29  Per-signal buffers stay sorted: in every reachable state, the
\* sequence counter never decreasing, the pending samples of each buffered
\* signal, read from the read cursor to the write cursor, carry strictly
\* increasing sequence numbers, and the write cursor designates a slot
\* inside the buffer or is the empty marker -1.
C29_BuffersSorted ==
    \A s \in TracedBuffers :
        /\ _idx[s].write \in -1 .. Depth(s) - 1
        /\ \A i, j \in _idx[s].read .. _idx[s].write :
               i < j => SequenceAt(s, i) < SequenceAt(s, j)

\* ------------------------------------------------------------------------
\* The calls of dumpers one drain pass can make at most: one of the first
\* loop for every dumper, and for every dumper one per slot and one more.
MostCalls == Cardinality(DOMAIN dumper_map) * (TRACE_DEPTH + 2)

\* C30  The drain pass terminates: whatever the buffers of the signals hold
\* (nothing, some samples, as many as they have slots, or a dropped call
\* on top), the loops of the flush end after a bounded number of dumper
\* calls with the map of pending sequences empty and every buffer empty,
\* so a flush that follows at once writes no value line.
C30_DrainTerminates ==
    [][FlushStep =>
         LET drained == drain_pass(_timestamp, CallIO)
         IN  /\ DOMAIN drained.status = {}
             /\ drained.calls <= MostCalls
             /\ \A s \in Traced :
                    IF Buffered(s) THEN _idx'[s].write = -1 ELSE ~Dirty(_idx'[s])
             /\ call \in {"finalize_header", "time_update_delta", "time_update_abs"}
                   => ValuesAt(out') = {}]_vars

\* A time update has drained ka, which had taken a call beyond its depth,
\* together with samples of ki.
C30_Witness ==
    /\ call \in {"time_update_delta", "time_update_abs"}
    /\ Len(LinesOf(out, _scope["ka"].identifier)) = TRACE_DEPTH + 1
    /\ LinesOf(out, _scope["ki"].identifier) # <<>>
    /\ \A s \in TracedBuffers : _idx[s].write = -1

\* ------------------------------------------------------------------------
\* The step is a time_update_abs whose time lies before _timestamp: the
\* call runs time_update_core and nothing else.
FlushOnly ==
    /\ call' = "time_update_abs"
    /\ \E t \in TimeArgs : ToUnsigned(t) < _timestamp /\ TimeUpdateAbs(t)

\* C31  The merge/flush algorithm leaves the logical timestamp of the
\* session unchanged: whatever sub-timestamps it writes, the timestamp
\* after the flush is the timestamp before it, and only the tracepoint and
\* the buffers of the signals change.  A call that only flushes leaves
\* _timestamp as it was, and time_update_delta adds its delta to the
\* _timestamp the call has found.
C31_FlushKeepsTimestamp ==
    [][/\ FlushOnly
            => /\ _timestamp' = _timestamp
               /\ _tracepoint' = LastTimeOf(out', _tracepoint)
               /\ \A s \in Traced : _samples'[s] = _samples[s]
               /\ <<seq, _scope, _identifier, dumper_map, identifier_map,
                     vcd_scope, children, header_done>>'
                    = <<seq, _scope, _identifier, dumper_map, identifier_map,
                        vcd_scope, children, header_done>>
       /\ \A delta \in TimeArgs :
             (call' = "time_update_delta" /\ TimeUpdateDelta(delta))
                => \/ _timestamp' = (_timestamp + ToUnsigned(delta)) % Modulus
                   \/ /\ _timestamp' = time_update_core(_timestamp, CallIO).tp
                      /\ (_timestamp + ToUnsigned(delta)) % Modulus <= _timestamp']_vars

\* A call that only flushed has written two samples, the second under a
\* sub-timestamp after _timestamp, and _timestamp is where it was.
C31_Witness ==
    /\ call = "time_update_abs"
    /\ Cardinality(ValuesAt(out)) = 2
    /\ \E i \in 1 .. Len(out) : IsTime(out[i]) /\ out[i].t > _timestamp
    /\ _timestamp < _tracepoint

\* ------------------------------------------------------------------------
\* No two neighbours of times are equal.
Changing(times) == \A i \in 1 .. Len(times) - 1 : times[i] # times[i + 1]

\* C32  A `#` line is written only when time changes: apart from the
\* forced `#0` of finalize_header, a `#` line is written exactly when the
\* time to log differs from the tracepoint, and the tracepoint then becomes
\* that time; so no two consecutive `#` lines written after
\* finalize_header carry the same time.  The first `#` line of a call
\* differs from the tracepoint the call has found, every later one from
\* the line before it, the tracepoint is left at the last time written,
\* and a time_update_delta ends with the line of its new timestamp exactly
\* when the flush has left the tracepoint at another time.
C32_TimeLinesChange ==
    [][Flushing =>
         /\ Changing(IF call' = "finalize_header"
                     THEN TimesOf(out')
                     ELSE <<_tracepoint>> \o TimesOf(out'))
         /\ _tracepoint' = LastTimeOf(out', _tracepoint)
         /\ last_time' = _tracepoint'
         /\ call' = "finalize_header" => TimesOf(out')[1] = 0
         /\ call' = "time_update_delta" =>
               LET flushed == time_update_core(_timestamp, CallIO)
               IN  IF _timestamp' = flushed.tp
                   THEN out' = flushed.out
                   ELSE out' = Append(flushed.out, TimeLine(_timestamp'))]_vars

\* A time_update_delta has written samples under two times and has left
\* the clock at the second of them, for which it has written no further
\* line; the time_update_delta(0) after it writes nothing.
C32_Witness ==
    /\ call = "time_update_delta"
    /\ Len(TimesOf(out)) >= 1
    /\ IsValue(out[Len(out)])
    /\ Cardinality(ValuesAt(out)) = 2
    /\ _timestamp = LastTimeOf(out, None)
    /\ ENABLED (TimeUpdateDelta(0) /\ out' = <<>>)

\* ------------------------------------------------------------------------
\* The module instance an identifier was registered at: the last instance
\* name of its path.
ScopeOf(id) == identifier_map[id][Len(identifier_map[id]) - 1]

\* The identifiers registered at the module instance n, in the order of
\* their registration.
RegisteredAt(n) == SelectSeq(issued, LAMBDA id : ScopeOf(id) = n)

\* C33  Declarations precede child scopes: in the finalized header the
\* `$var` lines of a node stand directly after the `$scope` line of the
\* node, in the order the variables were registered, and before the text
\* of any child scope, however the creation of child scopes and the
\* registration of variables were interleaved.
C33_VarsBeforeChildren ==
    call = "finalize_header" =>
        LET tree == ScopeTree(out)
        IN  \A n \in Declared :
               LET open == OpenOf(tree, n)
                   ids == RegisteredAt(n)
               IN  /\ \A i \in 1 .. Len(ids) :
                          /\ tree[open + i].k = "var"
                          /\ tree[open + i].id = ids[i]
                          /\ tree[open + i].name = OwnerOf(ids[i])
                   /\ tree[open + Len(ids) + 1].k \in {"scope", "upscope"}
                   /\ children[n] # <<>>
                         => tree[open + Len(ids) + 1] = ScopeLine(children[n][1])
                   /\ \A j \in open + Len(ids) + 1 .. Len(tree) :
                          tree[j].k = "var" => tree[j].id \notin {ids[i] : i \in 1 .. Len(ids)}

\* The header is written for a tree in which a module instance has
\* registered a variable after a variable was registered at one of its
\* children, and has registered two variables in all.
C33_Witness ==
    /\ call = "finalize_header"
    /\ \E n \in Declared, c \in Declared :
          /\ \E j \in 1 .. Len(children[n]) : children[n][j] = c
          /\ Len(RegisteredAt(n)) = 2
          /\ Len(RegisteredAt(c)) = 1
          /\ Rank(RegisteredAt(c)[1]) < Rank(RegisteredAt(n)[2])

\* ------------------------------------------------------------------------
\* The live unbuffered values that have a change to write.
DirtyValues == {s \in Live \ TracedBuffers : Dirty(_idx[s])}

\* The number of lines a call writes before its flush begins: the header,
\* up to its `#0`, for finalize_header, and none for a time update.
FlushStart(lines) ==
    IF call' = "finalize_header"
    THEN (CHOOSE i \in 1 .. Len(lines) : lines[i] = EndDefinitionsLine) + 1
    ELSE 0

\* C34  Unbuffered signals are written in the peek pass: in every flush
\* the lines of all dirty D = 1 signals are written before any `#` line
\* and before any buffered sample of that flush, under the time that was
\* in force when the flush began, whatever sequences the buffered samples
\* carry.  The first lines of the flush are the lines of the dirty
\* unbuffered values, one each, and no other line of the call carries the
\* identifier of an unbuffered value.
C34_UnbufferedInPeekPass ==
    [][Flushing =>
         LET b == FlushStart(out')
             e == b + Cardinality(DirtyValues)
         IN  /\ Len(out') >= e
             /\ \A s \in DirtyValues :
                    \E i \in b + 1 .. e : out'[i] = DirtyLine(s)
             /\ \A i \in b + 1 .. e :
                    /\ IsValue(out'[i])
                    /\ TimeInForce(out', i, _tracepoint)
                          = (IF b = 0 THEN _tracepoint ELSE 0)
             /\ \A i \in e + 1 .. Len(out') :
                    IsValue(out'[i]) => i \in BufferedAt(out')
             /\ \A s \in Live \ TracedBuffers : ~Dirty(_idx'[s])]_vars

\* A time update has written the change of flag as its first line, then
\* two samples of ka recorded at sequences below the current one, with a
\* `#` line between them.
C34_Witness ==
    /\ call \in {"time_update_delta", "time_update_abs"}
    /\ Len(out) >= 4
    /\ IsValue(out[1])
    /\ out[1].id = _scope["flag"].identifier
    /\ BufferedAt(out) = {2, 4}
    /\ IsTime(out[3])
    /\ out[4].sequence < seq

\* ------------------------------------------------------------------------
\* C35  Clock and tracepoint agree after an accepted update: when
\* time_update_delta returns, and when time_update_abs(t) returns for a t
\* that is not below the timestamp, the logical timestamp equals the
\* tracepoint; and in every state reached after finalize_header the
\* logical timestamp is at most the tracepoint.
C35_ClockMeetsTracepoint ==
    [][/\ call' = "time_update_delta" => _timestamp' = _tracepoint'
       /\ \A t \in TimeArgs :
              (call' = "time_update_abs" /\ t >= _timestamp /\ TimeUpdateAbs(t))
                 => _timestamp' = _tracepoint'
       /\ header_done' => _timestamp' <= _tracepoint']_vars

\* ------------------------------------------------------------------------
\* No two neighbours among the value lines of lines encode the same value
\* or state.
NoRepeat(lines) ==
    \A i \in 1 .. Len(lines) - 1 : lines[i].text # lines[i + 1].text

\* C36  Only changes are dumped, as claimed: for every signal and any
\* sequence of set, unknown and undriven calls and flushes, two consecutive
\* value lines written for the same identifier never encode the same value
\* or state; stated for the lines one call writes.
C36_OnlyChangesDumped ==
    [][(Flushing /\ NoOverflow) =>
         \A s \in Live : NoRepeat(LinesOf(out', _scope[s].identifier))]_vars

\* C36  Only changes are recorded, as the code has it: a set, unknown or
\* undriven call that repeats the newest stored sample of a signal leaves
\* the signal as it is, a call that takes a new slot behind a pending one
\* stores a sample that differs from the pending one, and a flush writes
\* no line for a signal that has no change to write.  A call on an empty
\* buffer is recorded whatever was written last, and a pending sample can
\* be overwritten in place with the value of the sample before it, so two
\* consecutive lines of an identifier can encode the same value.
C36_OnlyChangesRecorded ==
    [][\A s \in Live :
          /\ \A v \in Values :
                 (Recorded(s, "known", v) /\ Set(s, v))
                    => /\ _samples'[s] = _samples[s]
                       /\ _idx'[s] = _idx[s]
          /\ \A S \in States :
                 (Recorded(s, S, 0) /\ SetState(s, S))
                    => /\ _samples'[s] = _samples[s]
                       /\ _idx'[s] = _idx[s]
          /\ (Buffered(s) /\ _idx[s].write >= 0
                 /\ _idx'[s].write = _idx[s].write + 1
                 /\ _idx'[s].write < Depth(s))
                => LET old == Slot(_samples[s], _idx[s].write)
                       new == Slot(_samples'[s], _idx'[s].write)
                   IN  \/ new.state # old.state
                       \/ new.state = "known" /\ new.value # old.value
          /\ (Flushing /\ ~HasChange(s))
                => LinesOf(out', _scope[s].identifier) = <<>>]_vars

\* A flush has written two samples of ka that encode the same value: the
\* second was overwritten in place with the value of the first; and a set
\* with the value ka holds is enabled that leaves ka as it is.
C36_Witness ==
    /\ call \in {"time_update_delta", "time_update_abs"}
    /\ Len(LinesOf(out, _scope["ka"].identifier)) = 2
    /\ ~NoRepeat(LinesOf(out, _scope["ka"].identifier))
    /\ \E v \in Values :
          ENABLED (Recorded("flag", "known", v) /\ Set("flag", v)
                      /\ _samples' = _samples /\ _idx' = _idx)

\* ------------------------------------------------------------------------
\* The character of a state that is not known.
StateCharacter(state) == IF state = "unknown_x" THEN "x" ELSE "z"

\* C37  State is never rendered as a value: for every signal kind (scalar,
\* vector and real), a sample whose state is Unknown or Undriven is never
\* written as a Known value line: its line carries `x` or `z` and does not
\* depend on the stored value.
C37_StateNeverAsValue ==
    \A i \in DOMAIN ProbeLines :
        probe.smp.state # "known"
            => /\ \E k \in DOMAIN ProbeLines[i].text :
                      ProbeLines[i].text[k] = StateCharacter(probe.smp.state)
               /\ \A v \in ValuesOf(probe.type) :
                      ProbeLines[i].text
                         = value_text(probe.type, probe.width, probe.smp.state, v)

====
